---- MODULE Spec2Model ----
(***************************************************************************)
(* A model of the puzzle-swap ETL core: the invocation-tree extractor      *)
(* (BlockchainExtractor._find_relevant_transactions), the paged, spilling  *)
(* extraction loop (fetch_all_transactions / load_transactions_from_files),*)
(* the swap transformer and the amount normalisation of the asset          *)
(* registry.                                                               *)
(*                                                                         *)
(* Python dicts are functions whose DOMAIN is the set of keys present, so  *)
(* that d["k"] on a missing key (KeyError) and d.get("k", default) are     *)
(* told apart.  Python lists are sequences.                                *)
(***************************************************************************)
EXTENDS Integers, Sequences, FiniteSets, TLC

VARIABLES
    mode,             \* which component this behaviour exercises
    pc,               \* position of the running call
    transaction,      \* _find_relevant_transactions: the raw transaction given
    vip_functions,    \* _find_relevant_transactions: the vip function list given
    found,            \* _find_relevant_transactions: outcome [raised, value]
    \* -- fetch_all_transactions: configuration and environment
    limit,            \* page size passed to the node (fetch_transactions_batch's limit)
    threshold,        \* settings.max_transactions_in_memory
    last_processed_id,\* the sentinel id ("" for none)
    history,          \* the address history at the node, newest first (one shape per tx)
    files,            \* the spill files tmp/{address}_{i}: index -> list written
    \* -- fetch_all_transactions: locals
    all_transactions, last_tx_id, has_more, file_count, total_count,
    batch, relevant_txs, tx_index,
    result,           \* what fetch_all_transactions returned, [returned, transactions, file_count]
    error,            \* what it raised ("" while nothing was raised)
    \* -- load_transactions_from_files: locals
    file_index, loaded,
    \* -- observations of the run
    requests,         \* the after cursor of every page request made, in order
    replies,          \* the page the node returned to each request that succeeded
    pages,            \* what fetch_transactions_batch returned for each of them
    writes,           \* the spill file index of every write, in order
    read_failures,    \* the spill file indexes whose read failed
    \* -- SwapTransformer.transform_transactions
    transactions,     \* the WavesTransaction list given
    swaps,            \* the SwapData list returned
    \* -- AssetMapping.normalize_amount
    asset_id, raw_amount,
    normalized,       \* the Decimal returned
    \* -- AssetMapping.denormalize_amount
    decimal_amount,   \* the Decimal given, None when the raw amount comes first
    denormalized,     \* the int returned
    \* -- StakingTransformer
    events,           \* the StakingEventData list returned by transform_transactions
                      \* or given to aggregate_staking_stats
    stats_timestamp,  \* the timestamp given to aggregate_staking_stats
    stats,            \* the dict returned by aggregate_staking_stats
    \* -- SwapTransformer.calculate_usd_values
    price_data,       \* asset id -> USD price
    asset_decimals,   \* asset id -> decimals
    \* -- PuzzleSwapETL.run_pipeline
    given_addresses,  \* the addresses argument as the caller gave it
    addresses,        \* the addresses local (the default list when none was given)
    address_index,    \* the position of the for loop in addresses
    summary,          \* the summary dict
    attempted,        \* the calls of _process_address_with_batches made, with how they ended
    \* -- HTTPClient.get_waves_transactions
    session_open,     \* self.session is set (the client was entered)
    waves_node_urls,  \* settings.waves_node_urls
    waves_request,    \* the arguments: address, limit, after
    node_index,       \* the position of the for loop in waves_node_urls
    get_json_calls,   \* the calls of get_json made, with how they ended
    waves_result,     \* outcome of get_waves_transactions
    \* -- DatabaseLoader and PuzzleSwapETL._load_data
    stg_transactions,     \* stg.transactions: id -> row
    ods_swaps,            \* ods.swaps: id -> row
    ods_staking_events,   \* ods.staking_events: id -> row
    load_batch,           \* the arguments of _load_data
    tables_before,        \* the three tables when the batch was first given
    load_outcomes,        \* how the calls of _load_data on this batch ended
    \* -- PuzzleSwapETL._get_price_data
    price_response,       \* how get_aggregator_prices ends: [raised, value]
    stg_price_data,       \* stg.price_data: the rows committed
    price_lookup,         \* the dict _get_price_data returned (None before it has)
    \* -- PuzzleSwapETL._process_address_with_batches inside run_pipeline
    page_plan,            \* what the node holds for each address: its pages
    page_index,           \* the pages of the current address fetched so far
    current_page,         \* the batch in hand (None between two pages)
    address_summary,      \* the summary local of _process_address_with_batches
    steps                 \* the fetches and loads made, in order

relevant_vars == <<transaction, vip_functions, found>>
config_vars == <<limit, threshold, last_processed_id, history>>
fetch_locals == <<all_transactions, last_tx_id, has_more, file_count, total_count,
                  batch, relevant_txs, tx_index, result, error>>
drain_locals == <<file_index, loaded>>
observed_vars == <<requests, replies, pages, writes, read_failures>>

transform_vars == <<transactions, swaps>>
amount_vars == <<asset_id, raw_amount, normalized>>
roundtrip_vars == <<decimal_amount, denormalized>>
staking_vars == <<events, stats_timestamp, stats>>
usd_vars == <<price_data, asset_decimals>>
pipeline_vars == <<given_addresses, addresses, address_index, summary, attempted>>
http_vars == <<session_open, waves_node_urls, waves_request, node_index, get_json_calls,
               waves_result>>
db_vars == <<stg_transactions, ods_swaps, ods_staking_events, load_batch, tables_before,
             load_outcomes>>
price_vars == <<price_response, stg_price_data, price_lookup>>
batch_vars == <<page_plan, page_index, current_page, address_summary, steps>>
extra_vars == <<price_vars, batch_vars>>
sink_vars == <<http_vars, db_vars, extra_vars>>
later_vars == <<roundtrip_vars, staking_vars, usd_vars, pipeline_vars, sink_vars>>
downstream_vars == <<transform_vars, amount_vars, later_vars>>
extractor_vars == <<relevant_vars, config_vars, files, fetch_locals, drain_locals,
                    observed_vars>>

vars == <<mode, pc, relevant_vars, config_vars, files, fetch_locals, drain_locals,
          observed_vars, downstream_vars>>

----------------------------------------------------------------------------
(* Dict helpers                                                            *)

EmptyDict == [k \in {} |-> k]

Has(d, k) == k \in DOMAIN d

\* d.get(k, default)
Get(d, k, default) == IF k \in DOMAIN d THEN d[k] ELSE default

\* d[k] = v on a copy of d
Put(d, k, v) == [x \in (DOMAIN d) \cup {k} |-> IF x = k THEN v ELSE d[x]]

\* d.update(e)
Update(d, e) == [x \in (DOMAIN d) \cup (DOMAIN e) |-> IF x \in DOMAIN e THEN e[x] ELSE d[x]]

\* What d.get(k) gives for a key that is absent (Python None), among strings.
NoneStr == "<None>"

\* Python None where a number, a Decimal or a dict is expected.
None == [none |-> TRUE]

\* A JSON number, as a value that can be told from null.
Number(n) == [int |-> n]

----------------------------------------------------------------------------
(* Bounds and the values the inputs are drawn from                         *)

\* Largest number of invocation nodes (root included) in one transaction.
MaxNodes == 4

\* The address whose history is extracted (the target_address argument).
TargetAddress == "3PGFHzVGT4NTigwCKP1NcwoXkodVZwvBuuU"
\* Some other contract.
OtherAddress == "3P8d1E1BLKoD52y3bQJ1bDTd2TD1gpaLn9t"
\* An externally owned account: the sender of the top-level transactions.
UserAddress == "3PUser"

\* The vip function lists passed by the callers (None, and the list that
\* _process_address_with_batches passes for a non-staking address).
VipChoices == { <<>>, <<"swap", "swapWithReferral">> }

InSeq(x, s) == \E i \in DOMAIN s : s[i] = x

\* (dApp, call.function) of a node; NoneStr marks a key that is missing.
NodeLabels ==
    { <<TargetAddress, "swap">>, <<OtherAddress, "swap">>, <<OtherAddress, "init">>,
      <<TargetAddress, NoneStr>>, <<OtherAddress, NoneStr>>, <<NoneStr, "swap">> }

\* An invocation node as the node API returns it.  "ref" stands for the
\* identity of the dict object: the path of child indexes from the root.
MkNode(label, path, kids) ==
    LET base == [k \in {"ref"} |-> path]
        withDApp == IF label[1] = NoneStr THEN base ELSE Put(base, "dApp", label[1])
        withCall == IF label[2] = NoneStr THEN withDApp
                    ELSE Put(withDApp, "call", [function |-> label[2]])
    IN  IF kids = <<>> THEN withCall
        ELSE Put(withCall, "stateChanges", [invokes |-> kids])

\* The shape of an ordered tree of n nodes numbered in pre-order: par[i] is
\* the parent of node i (0 for the root).  Node i hangs under node i-1 or
\* under one of the ancestors of node i-1.
RECURSIVE IsAncestorOrSelf(_, _, _)
IsAncestorOrSelf(par, a, j) == (a = j) \/ (j > 1 /\ IsAncestorOrSelf(par, a, par[j]))

TreeShapes(n) ==
    { par \in [1..n -> 0..(n - 1)] :
        /\ par[1] = 0
        /\ \A i \in 2..n : par[i] \in 1..(i - 1) /\ IsAncestorOrSelf(par, par[i], i - 1) }

\* The children of node i, in source order.
RECURSIVE ChildrenFrom(_, _, _)
ChildrenFrom(par, i, c) ==
    IF c > Len(par) THEN <<>>
    ELSE (IF par[c] = i THEN <<c>> ELSE <<>>) \o ChildrenFrom(par, i, c + 1)

RECURSIVE BuildTree(_, _, _, _)
BuildTree(par, labels, i, path) ==
    LET cs == ChildrenFrom(par, i, i + 1)
    IN  MkNode(labels[i], path,
               [k \in 1..Len(cs) |-> BuildTree(par, labels, cs[k], Append(path, k))])

\* The fields every transaction of the address history carries.
\* Transaction number n of a history has the id ToString(n).
Envelope(n, type) ==
    [id |-> ToString(n), height |-> 100 + n, timestamp |-> 1000 + n,
     sender |-> UserAddress, type |-> type]

Statuses == { "succeeded", "script_execution_failed", NoneStr }

WithStatus(tx, status) ==
    IF status = NoneStr THEN tx ELSE Put(tx, "applicationStatus", status)

\* A type-16 transaction: the envelope and the root invocation node.
InvokeTx(id, tree, status) == WithStatus(Update(tree, Envelope(id, 16)), status)
\* A type-18 transaction wrapping a payload of the given kind.
WrappedTx(id, tree, kind, status) ==
    WithStatus(Put(Envelope(id, 18), "payload", Put(tree, "type", kind)), status)
\* A plain transfer (type 4).
TransferTx(id, status) ==
    WithStatus(Put(Put(Envelope(id, 4), "recipient", OtherAddress), "amount", 5), status)

\* How the invocation tree reaches the extractor.
Kinds == { "invoke", "wrapped-invocation", "wrapped-transfer" }

RawTransaction(id, tree, kind, status) ==
    CASE kind = "invoke" -> InvokeTx(id, tree, status)
      [] kind = "wrapped-invocation" -> WrappedTx(id, tree, "invocation", status)
      [] kind = "wrapped-transfer" -> WrappedTx(id, tree, "transfer", status)

----------------------------------------------------------------------------
(* BlockchainExtractor._extract_invokes                                    *)

\* A plausible slip: the type tag is left out of the assignments.
InheritWithoutType(invoke, sender, height, timestamp, tx_id) ==
    Update(invoke, [sender |-> sender, height |-> height, timestamp |-> timestamp,
                    id |-> tx_id])

\* The five assignments at the head of the loop body.
Inherit(invoke, sender, height, timestamp, tx_id) ==
    Update(invoke, [sender |-> sender, height |-> height, timestamp |-> timestamp,
                    type |-> 16, id |-> tx_id])

\* The condition of the try block raises KeyError.
RaisesKeyError(node, target_address) ==
    \/ ~Has(node, "dApp")
    \/ /\ node["dApp"] # target_address
       /\ ~(Has(node, "call") /\ Has(node["call"], "function"))

\* The relevance condition, evaluated left to right as Python does.
IsRelevant(node, target_address, vips) ==
    \/ node["dApp"] = target_address
    \/ InSeq(node["call"]["function"], vips)

NestedInvokes(node) == Get(Get(node, "stateChanges", EmptyDict), "invokes", <<>>)

RECURSIVE ExtractInvokesRelevantOnly(_, _, _, _, _, _, _)
\* A plausible slip: the recursion sits inside the relevance test, so the
\* nested invokes of a node that is not relevant are never visited.
ExtractInvokesRelevantOnly(invokes, target_address, sender, height, timestamp, tx_id, vips) ==
    IF invokes = <<>> THEN [inv |-> <<>>, col |-> <<>>]
    ELSE
      LET invoke == Inherit(Head(invokes), sender, height, timestamp, tx_id)
          keyError == RaisesKeyError(invoke, target_address)
          nested == NestedInvokes(invoke)
          relevant == ~keyError /\ IsRelevant(invoke, target_address, vips)
          descend == relevant /\ nested # <<>>
          sub == IF descend
                 THEN ExtractInvokesRelevantOnly(nested, target_address, invoke["dApp"],
                                                 height, timestamp, tx_id, vips)
                 ELSE [inv |-> nested, col |-> <<>>]
          node == IF descend
                  THEN Put(invoke, "stateChanges",
                           Put(invoke["stateChanges"], "invokes", sub.inv))
                  ELSE invoke
          rest == ExtractInvokesRelevantOnly(Tail(invokes), target_address, sender,
                                             height, timestamp, tx_id, vips)
      IN  [inv |-> <<node>> \o rest.inv,
           col |-> (IF relevant THEN <<node>> ELSE <<>>) \o sub.col \o rest.col]

RECURSIVE ExtractInvokes(_, _, _, _, _, _, _)
\* inv: the invokes list after the in-place updates; col: what was appended
\* to the collector, in order.
ExtractInvokes(invokes, target_address, sender, height, timestamp, tx_id, vips) ==
    IF invokes = <<>> THEN [inv |-> <<>>, col |-> <<>>]
    ELSE
      LET invoke == Inherit(Head(invokes), sender, height, timestamp, tx_id)
          keyError == RaisesKeyError(invoke, target_address)
          nested == NestedInvokes(invoke)
          descend == ~keyError /\ nested # <<>>
          sub == IF descend
                 THEN ExtractInvokes(nested, target_address, invoke["dApp"],
                                     height, timestamp, tx_id, vips)
                 ELSE [inv |-> nested, col |-> <<>>]
          node == IF descend
                  THEN Put(invoke, "stateChanges",
                           Put(invoke["stateChanges"], "invokes", sub.inv))
                  ELSE invoke
          rest == ExtractInvokes(Tail(invokes), target_address, sender,
                                 height, timestamp, tx_id, vips)
      IN  [inv |-> <<node>> \o rest.inv,
           col |-> (IF ~keyError /\ IsRelevant(invoke, target_address, vips)
                    THEN <<node>> ELSE <<>>) \o sub.col \o rest.col]

----------------------------------------------------------------------------
(* BlockchainExtractor._find_relevant_transactions                         *)

Returned(v) == [raised |-> FALSE, value |-> v]
Raised == [raised |-> TRUE, value |-> <<>>]

\* A plausible slip: every payload is taken for an invocation.
UnwrapAlwaysInvocation(tx) ==
    IF tx["type"] = 18
    THEN Update(tx["payload"],
                [id |-> tx["id"], timestamp |-> tx["timestamp"], height |-> tx["height"],
                 sender |-> tx["sender"],
                 applicationStatus |-> Get(tx, "applicationStatus", ""),
                 type |-> 16])
    ELSE tx

\* Lines 112-125: a type-18 transaction is replaced by its payload.
Unwrap(tx) ==
    IF tx["type"] = 18
    THEN Update(tx["payload"],
                [id |-> tx["id"], timestamp |-> tx["timestamp"], height |-> tx["height"],
                 sender |-> tx["sender"],
                 applicationStatus |-> Get(tx, "applicationStatus", ""),
                 type |-> IF tx["payload"]["type"] = "invocation" THEN 16 ELSE 4])
    ELSE tx

\* Lines 127-149: the walk of a type-16 transaction (no try block here).
WalkInvocation(tx, target_address, vips) ==
    IF tx["type"] # 16 THEN Returned(<<>>)
    ELSE IF RaisesKeyError(tx, target_address) THEN Raised
    ELSE
      LET nested == NestedInvokes(tx)
          sub == IF nested # <<>>
                 THEN ExtractInvokes(nested, target_address, tx["dApp"], tx["height"],
                                     tx["timestamp"], tx["id"], vips)
                 ELSE [inv |-> nested, col |-> <<>>]
          root == IF nested # <<>>
                  THEN Put(tx, "stateChanges", Put(tx["stateChanges"], "invokes", sub.inv))
                  ELSE tx
      IN  Returned((IF IsRelevant(tx, target_address, vips) THEN <<root>> ELSE <<>>)
                   \o sub.col)

\* A plausible slip: the status test is dropped.
FindRelevantIgnoringStatus(tx, target_address, vips) ==
    WalkInvocation(Unwrap(tx), target_address, vips)

FindRelevantTransactions(tx, target_address, vips) ==
    IF Get(tx, "applicationStatus", NoneStr) # "succeeded"
    THEN Returned(<<>>)
    ELSE WalkInvocation(Unwrap(tx), target_address, vips)

----------------------------------------------------------------------------
(* Specification SpecRelevant: _find_relevant_transactions on one input    *)

NotRun == [raised |-> FALSE, value |-> <<>>]

\* The state of the components a behaviour does not exercise.
NoResult == [returned |-> FALSE, transactions |-> <<>>, file_count |-> 0]

RoundTripIdle == decimal_amount = None /\ denormalized = 0

PipelineIdle ==
    /\ given_addresses = <<>> /\ addresses = <<>> /\ address_index = 0
    /\ summary = EmptyDict /\ attempted = <<>>

UsdIdle == price_data = EmptyDict /\ asset_decimals = EmptyDict

StakingIdle == events = <<>> /\ stats_timestamp = None /\ stats = None

\* Every later component but the one named g is idle.
HttpIdle ==
    /\ session_open = FALSE /\ waves_node_urls = <<>> /\ waves_request = None
    /\ node_index = 0 /\ get_json_calls = <<>> /\ waves_result = None

DbIdle ==
    /\ stg_transactions = EmptyDict /\ ods_swaps = EmptyDict
    /\ ods_staking_events = EmptyDict /\ load_batch = None /\ tables_before = None
    /\ load_outcomes = <<>>

PricesIdle == price_response = None /\ stg_price_data = <<>> /\ price_lookup = None

BatchesIdle ==
    /\ page_plan = <<>> /\ page_index = 0 /\ current_page = None
    /\ address_summary = None /\ steps = <<>>

LaterIdleBut(g) ==
    /\ (g # "batches") => BatchesIdle
    /\ (g # "prices") => PricesIdle
    /\ (g # "http") => HttpIdle
    /\ (g # "db") => DbIdle
    /\ (g # "roundtrip") => RoundTripIdle
    /\ (g # "staking") => StakingIdle
    /\ (g # "usd") => UsdIdle
    /\ (g # "pipeline") => PipelineIdle

DownstreamIdle ==
    /\ transactions = <<>> /\ swaps = <<>>
    /\ asset_id = "" /\ raw_amount = 0 /\ normalized = None
    /\ LaterIdleBut("")

FetchIdle ==
    /\ limit = 0 /\ threshold = 0 /\ last_processed_id = "" /\ history = <<>>
    /\ files = EmptyDict
    /\ all_transactions = <<>> /\ last_tx_id = "" /\ has_more = FALSE
    /\ file_count = 0 /\ total_count = 0
    /\ batch = <<>> /\ relevant_txs = <<>> /\ tx_index = 0
    /\ result = NoResult /\ error = ""
    /\ file_index = 0 /\ loaded = <<>>
    /\ requests = <<>> /\ replies = <<>> /\ pages = <<>> /\ writes = <<>>
    /\ read_failures = {}

InitRelevant ==
    /\ mode = "relevant"
    /\ pc = "call"
    /\ FetchIdle
    /\ DownstreamIdle
    /\ \/ \E n \in 1..MaxNodes :
            \E par \in TreeShapes(n), labels \in [1..n -> NodeLabels] :
              \E kind \in Kinds, status \in Statuses :
                transaction = RawTransaction(1, BuildTree(par, labels, 1, <<>>), kind, status)
       \/ \E status \in Statuses : transaction = TransferTx(1, status)
    /\ vip_functions \in VipChoices
    /\ found = NotRun

CallFindRelevant ==
    /\ mode = "relevant"
    /\ pc = "call"
    /\ found' = FindRelevantTransactions(transaction, TargetAddress, vip_functions)
    /\ pc' = "returned"
    /\ UNCHANGED <<mode, downstream_vars, transaction, vip_functions, config_vars, files, fetch_locals,
                   drain_locals, observed_vars>>

NextRelevant == CallFindRelevant

SpecRelevant == InitRelevant /\ [][NextRelevant]_vars

----------------------------------------------------------------------------
\* C1: a transaction whose applicationStatus is not "succeeded" (absent
\* included) gives an empty list and no exception, whatever its type, dApp,
\* function or nested invokes.
C1_FailedGivesEmpty ==
    (pc = "returned" /\ Get(transaction, "applicationStatus", NoneStr) # "succeeded")
        => (found = Returned(<<>>))

\* A failed type-16 transaction with a relevant root and nested invokes was processed.
C1_Witness ==
    /\ pc = "returned"
    /\ Get(transaction, "applicationStatus", NoneStr) = "script_execution_failed"
    /\ transaction["type"] = 16
    /\ Has(transaction, "dApp") /\ transaction["dApp"] = TargetAddress
    /\ NestedInvokes(transaction) # <<>>

----------------------------------------------------------------------------
(* The reference the extractor is compared with: the nodes of the tree as  *)
(* given, listed parent first and siblings in source order.                *)

RECURSIVE PreOrder(_), PreOrderAll(_)
PreOrder(node) == <<node>> \o PreOrderAll(NestedInvokes(node))
PreOrderAll(nodes) ==
    IF nodes = <<>> THEN <<>> ELSE PreOrder(Head(nodes)) \o PreOrderAll(Tail(nodes))

WellFormed(node) == Has(node, "dApp") /\ Has(node, "call") /\ Has(node["call"], "function")

AllWellFormed(root) == \A i \in DOMAIN PreOrder(root) : WellFormed(PreOrder(root)[i])

SatisfiesPredicate(node, vips) ==
    node["dApp"] = TargetAddress \/ InSeq(node["call"]["function"], vips)

RelevantInPreOrder(root, vips) ==
    LET Test(node) == SatisfiesPredicate(node, vips)
    IN  SelectSeq(PreOrder(root), Test)

\* What identifies a node: the object, its contract and its function.
Identity(nodes) ==
    [i \in DOMAIN nodes |-> <<nodes[i]["ref"], nodes[i]["dApp"], nodes[i]["call"]["function"]>>]

SucceededInvoke ==
    /\ mode = "relevant" /\ pc = "returned"
    /\ Get(transaction, "applicationStatus", NoneStr) = "succeeded"
    /\ transaction["type"] = 16

\* C2: for a succeeded type-16 transaction whose nodes are all well-formed the
\* result is exactly the relevant nodes of the tree in depth-first pre-order,
\* descendants of irrelevant nodes included; all nodes relevant gives as many
\* elements as nodes, and without nested invokes the result is the root iff
\* the root is relevant.
C2_PreOrderOfRelevantNodes ==
    (SucceededInvoke /\ AllWellFormed(transaction)) =>
        LET expected == RelevantInPreOrder(transaction, vip_functions)
        IN  /\ ~found.raised
            /\ Identity(found.value) = Identity(expected)
            /\ (Len(expected) = Len(PreOrder(transaction))
                    => Len(found.value) = Len(PreOrder(transaction)))
            /\ (NestedInvokes(transaction) = <<>>
                    => found.value = (IF SatisfiesPredicate(transaction, vip_functions)
                                      THEN <<transaction>> ELSE <<>>))

\* Root and first child irrelevant, the grandchild and the second child
\* relevant: the grandchild comes before the second child.
C2_Witness ==
    /\ SucceededInvoke /\ AllWellFormed(transaction)
    /\ Len(PreOrder(transaction)) = 4
    /\ ~SatisfiesPredicate(transaction, vip_functions)
    /\ Len(found.value) = 2
    /\ found.value[1]["ref"] = <<1, 1>>
    /\ found.value[2]["ref"] = <<2>>

----------------------------------------------------------------------------
(* The paged extraction: fetch_transactions_batch, fetch_all_transactions, *)
(* _save_transactions_to_file and load_transactions_from_files.            *)

\* The page size of the scaled-down histories (the code asks for DefaultLimit).
PageLimit == 2
\* fetch_transactions_batch's default limit, which fetch_all_transactions uses.
DefaultLimit == 1000
\* Longest address history.
MaxHistory == 5
\* Largest spill threshold of the scaled-down histories.
MaxThreshold == 3

\* The vip functions _process_address_with_batches passes for this address.
SwapVips == <<"swap", "swapWithReferral">>

Leaf(label) == MkNode(label, <<>>, <<>>)

\* The transactions a history is made of, by what the extractor makes of them.
TxShapes == { "failed", "leaf", "nested", "malformed" }

ShapeTx(n, shape) ==
    CASE shape = "failed" ->
           InvokeTx(n, Leaf(<<TargetAddress, "swap">>), "script_execution_failed")
      [] shape = "leaf" ->
           InvokeTx(n, Leaf(<<TargetAddress, "swap">>), "succeeded")
      [] shape = "nested" ->
           InvokeTx(n, MkNode(<<TargetAddress, "swap">>, <<>>,
                              << MkNode(<<OtherAddress, "swap">>, <<1>>, <<>>) >>),
                    "succeeded")
      [] shape = "callee" ->
           InvokeTx(n, MkNode(<<TargetAddress, "swap">>, <<>>,
                              << MkNode(<<OtherAddress, "init">>, <<1>>, <<>>) >>),
                    "succeeded")
      [] shape = "malformed" ->
           InvokeTx(n, Leaf(<<NoneStr, "swap">>), "succeeded")

HistoryTx(n) == ShapeTx(n, history[n])

\* The place in the history of the transaction with the given id (0 for "").
Position(id) ==
    IF id = "" THEN 0 ELSE CHOOSE n \in 1..Len(history) : ToString(n) = id

Min(a, b) == IF a <= b THEN a ELSE b

Reverse(s) == [i \in 1..Len(s) |-> s[Len(s) + 1 - i]]

\* The concatenation of the sequences ss[lo], ..., ss[hi].
RECURSIVE FlattenRange(_, _, _)
FlattenRange(ss, lo, hi) ==
    IF lo > hi THEN <<>>
    ELSE IF lo = hi THEN ss[lo]
    ELSE LET mid == (lo + hi) \div 2
         IN  FlattenRange(ss, lo, mid) \o FlattenRange(ss, mid + 1, hi)

Flatten(ss) == FlattenRange(ss, 1, Len(ss))

\* HTTPClient.get_waves_transactions when a node answers: the node returns
\* at most `lim` transactions, those that follow the cursor.
NodeReply(after, lim) ==
    LET pos == Position(after)
    IN  [k \in 1..Min(lim, Len(history) - pos) |-> HistoryTx(pos + k)]

\* The loop written with `continue`: only the sentinel itself is dropped.
FilterProcessedSkipOnly(txs, last_id) ==
    IF last_id = "" THEN txs
    ELSE LET Other(tx) == tx["id"] # last_id
         IN  SelectSeq(txs, Other)

\* fetch_transactions_batch, lines 186-193: cut the page at the sentinel.
FilterProcessed(txs, last_id) ==
    IF last_id = "" THEN txs
    ELSE LET hits == { i \in DOMAIN txs : txs[i]["id"] = last_id }
         IN  IF hits = {} THEN txs
             ELSE SubSeq(txs, 1, (CHOOSE i \in hits : \A j \in hits : i <= j) - 1)

Ids(txs) == [i \in DOMAIN txs |-> txs[i]["id"]]

\* Lines 242-249: one page is requested and answered.
FetchPage ==
    /\ pc = "fetch"
    /\ LET reply == NodeReply(last_tx_id, limit)
           page == FilterProcessed(reply, last_processed_id)
       IN  /\ requests' = Append(requests, last_tx_id)
           /\ replies' = Append(replies, Ids(reply))
           /\ pages' = Append(pages, Ids(page))
           /\ batch' = page
           /\ has_more' = (Len(page) = limit)
           /\ relevant_txs' = <<>>
           /\ tx_index' = 1
           /\ pc' = IF page = <<>> THEN "flush" ELSE "process"
    /\ UNCHANGED <<mode, downstream_vars, relevant_vars, config_vars, files, all_transactions, last_tx_id,
                   file_count, total_count, result, error, drain_locals, writes,
                   read_failures>>

\* The failed request is made again instead of being raised.
FetchFailsRetried ==
    /\ pc = "fetch"
    /\ requests' = Append(requests, last_tx_id)
    /\ UNCHANGED <<mode, downstream_vars, pc, relevant_vars, config_vars, files, fetch_locals,
                   drain_locals, replies, pages, writes, read_failures>>

\* Lines 205-207 and 298-300: every node failed for this request; the error
\* is logged and raised again by both layers.
FetchFails ==
    /\ pc = "fetch"
    /\ requests' = Append(requests, last_tx_id)
    /\ error' = "RuntimeError"
    /\ pc' = "raised"
    /\ UNCHANGED <<mode, downstream_vars, relevant_vars, config_vars, files, all_transactions, last_tx_id,
                   has_more, file_count, total_count, batch, relevant_txs, tx_index,
                   result, drain_locals, replies, pages, writes, read_failures>>

\* Lines 251-257: the loop `for tx in batch`. A transaction that makes
\* _find_relevant_transactions raise ends the loop and the call (lines
\* 298-300); the invocations found before it stay in relevant_txs.
ProcessBatch ==
    /\ pc = "process"
    /\ tx_index <= Len(batch)
    /\ LET f == [i \in DOMAIN batch |->
                   FindRelevantTransactions(batch[i], TargetAddress, vip_functions)]
           raising == { i \in DOMAIN batch : f[i].raised }
           stop == IF raising = {} THEN Len(batch) + 1
                   ELSE CHOOSE i \in raising : \A j \in raising : i <= j
           values == [i \in 1..(stop - 1) |-> f[i].value]
       IN  /\ relevant_txs' = relevant_txs \o Flatten(values)
           /\ tx_index' = stop
           /\ pc' = IF raising = {} THEN pc ELSE "raised"
           /\ error' = IF raising = {} THEN error ELSE "KeyError"
    /\ UNCHANGED <<mode, downstream_vars, relevant_vars, config_vars, files, all_transactions, last_tx_id,
                   has_more, file_count, total_count, batch, result, drain_locals,
                   observed_vars>>

\* The comparison written with >= : a buffer exactly at the threshold is spilled.
OverThresholdInclusive(count, max_in_memory) == count >= max_in_memory

\* Line 264.
OverThreshold(count, max_in_memory) == count > max_in_memory

\* The end of a page with a loop that goes on whatever has_more says.
EndBatchAlwaysFetching ==
    /\ pc = "process"
    /\ tx_index > Len(batch)
    /\ LET buffer == all_transactions \o relevant_txs
       IN  /\ total_count' = total_count + Len(relevant_txs)
           /\ last_tx_id' = batch[Len(batch)]["id"]
           /\ IF OverThreshold(Len(buffer), threshold)
              THEN /\ files' = Put(files, file_count, buffer)
                   /\ writes' = Append(writes, file_count)
                   /\ file_count' = file_count + 1
                   /\ all_transactions' = <<>>
              ELSE /\ all_transactions' = buffer
                   /\ UNCHANGED <<files, writes, file_count>>
    /\ pc' = "fetch"
    /\ UNCHANGED <<mode, downstream_vars, relevant_vars, config_vars, has_more, batch, relevant_txs,
                   tx_index, result, error, drain_locals, requests, replies, pages,
                   read_failures>>

\* Lines 259-276: the page is added to the buffer and the buffer is spilled
\* when it has grown over the threshold; then the loop condition is tested.
EndBatch ==
    /\ pc = "process"
    /\ tx_index > Len(batch)
    /\ LET buffer == all_transactions \o relevant_txs
       IN  /\ total_count' = total_count + Len(relevant_txs)
           /\ last_tx_id' = batch[Len(batch)]["id"]
           /\ IF OverThreshold(Len(buffer), threshold)
              THEN /\ files' = Put(files, file_count, buffer)
                   /\ writes' = Append(writes, file_count)
                   /\ file_count' = file_count + 1
                   /\ all_transactions' = <<>>
              ELSE /\ all_transactions' = buffer
                   /\ UNCHANGED <<files, writes, file_count>>
    /\ pc' = IF has_more THEN "fetch" ELSE "flush"
    /\ UNCHANGED <<mode, downstream_vars, relevant_vars, config_vars, has_more, batch, relevant_txs,
                   tx_index, result, error, drain_locals, requests, replies, pages,
                   read_failures>>

\* The save of what is left is missing.
SaveRemainingSkipped(count, buffer) == FALSE

\* Line 279.
SaveRemaining(count, buffer) == count > 0 /\ buffer # <<>>

\* Lines 278-296: what is left goes to one more file when files are in use,
\* otherwise the list is reversed; the call returns.
Flush ==
    /\ pc = "flush"
    /\ LET save == SaveRemaining(file_count, all_transactions)
           count == IF save THEN file_count + 1 ELSE file_count
           left == IF save THEN <<>> ELSE all_transactions
           final == IF count = 0 THEN Reverse(left) ELSE left
       IN  /\ files' = IF save THEN Put(files, file_count, all_transactions) ELSE files
           /\ writes' = IF save THEN Append(writes, file_count) ELSE writes
           /\ file_count' = count
           /\ all_transactions' = final
           /\ result' = [returned |-> TRUE, transactions |-> final, file_count |-> count]
    /\ pc' = "returned"
    /\ UNCHANGED <<mode, downstream_vars, relevant_vars, config_vars, last_tx_id, has_more, total_count,
                   batch, relevant_txs, tx_index, error, drain_locals, requests, replies,
                   pages, read_failures>>

\* Lines 340-343: the caller drains the files of a run that used files.
StartLoad ==
    /\ pc = "returned"
    /\ result.file_count > 0
    /\ loaded' = <<>>
    /\ file_index' = result.file_count - 1
    /\ pc' = "load"
    /\ UNCHANGED <<mode, downstream_vars, relevant_vars, config_vars, files, fetch_locals, observed_vars>>

\* A read that skips the reversal of the file's list.
ReadSpillFileAsWritten(content) == content

\* Lines 348-350: the list read back from a file, reversed.
ReadSpillFile(content) == Reverse(content)

\* A clean-up that leaves the file where it is.
KeepFile(d, k) == d

\* Lines 356-357: os.remove(filename).
Remove(d, k) == [x \in (DOMAIN d) \ {k} |-> d[x]]

\* Lines 344-357: one file is read, appended and removed.
LoadFile ==
    /\ pc = "load"
    /\ file_index >= 0
    /\ Has(files, file_index)
    /\ loaded' = loaded \o ReadSpillFile(files[file_index])
    /\ files' = Remove(files, file_index)
    /\ file_index' = file_index - 1
    /\ UNCHANGED <<mode, downstream_vars, pc, relevant_vars, config_vars, fetch_locals, observed_vars>>

\* A failed read that ends the drain with the exception.
LoadFileFailsRaising ==
    /\ pc = "load"
    /\ file_index >= 0
    /\ read_failures' = read_failures \cup {file_index}
    /\ pc' = "raised"
    /\ error' = "OSError"
    /\ UNCHANGED <<mode, downstream_vars, relevant_vars, config_vars, files, all_transactions,
                   last_tx_id, has_more, file_count, total_count, batch, relevant_txs,
                   tx_index, result, drain_locals, requests, replies, pages, writes>>

\* Lines 359-364: opening, reading or parsing the file raises; the error is
\* logged and the loop goes on with the next file.
LoadFileFails ==
    /\ pc = "load"
    /\ file_index >= 0
    /\ read_failures' = read_failures \cup {file_index}
    /\ file_index' = file_index - 1
    /\ UNCHANGED <<mode, downstream_vars, pc, relevant_vars, config_vars, files, fetch_locals, loaded,
                   requests, replies, pages, writes>>

\* Line 366.
LoadReturns ==
    /\ pc = "load"
    /\ file_index < 0
    /\ pc' = "done"
    /\ UNCHANGED <<mode, downstream_vars, relevant_vars, config_vars, files, fetch_locals, drain_locals,
                   observed_vars>>

\* Files left behind by an earlier run of the same address that raised.
StaleFiles == (0 :> << [id |-> "stale"] >>) @@ (1 :> << [id |-> "stale"] >>)

\* Lines 235-239, for a given configuration and history.
FetchStart ==
    /\ pc = "fetch"
    /\ transaction = EmptyDict /\ vip_functions = SwapVips /\ found = NotRun
    /\ all_transactions = <<>> /\ last_tx_id = "" /\ has_more = TRUE
    /\ file_count = 0 /\ total_count = 0
    /\ batch = <<>> /\ relevant_txs = <<>> /\ tx_index = 0
    /\ result = NoResult /\ error = ""
    /\ file_index = 0 /\ loaded = <<>>
    /\ requests = <<>> /\ replies = <<>> /\ pages = <<>> /\ writes = <<>>
    /\ read_failures = {}

Init ==
    /\ mode = "fetch"
    /\ limit = PageLimit
    /\ threshold \in limit..MaxThreshold
    /\ \E n \in 0..MaxHistory : history \in [1..n -> TxShapes]
    /\ last_processed_id \in {""} \cup { ToString(n) : n \in 1..Len(history) }
    /\ files \in { EmptyDict, StaleFiles }
    /\ FetchStart
    /\ DownstreamIdle

Next ==
    \/ FetchPage
    \/ FetchFails
    \/ ProcessBatch
    \/ EndBatch
    \/ Flush
    \/ StartLoad
    \/ LoadFile
    \/ LoadFileFails
    \/ LoadReturns

Spec == Init /\ [][Next]_vars

----------------------------------------------------------------------------
\* The relevant invocations of the pages fetched, in fetch order.
TxOfId(id) == HistoryTx(Position(id))

RECURSIVE RelevantOfAll(_)
RelevantOfAll(ids) ==
    IF ids = <<>> THEN <<>>
    ELSE FindRelevantTransactions(TxOfId(Head(ids)), TargetAddress, vip_functions).value
         \o RelevantOfAll(Tail(ids))

\* The extraction has delivered its final sequence.
Delivered ==
    \/ pc = "returned" /\ result.file_count = 0
    \/ pc = "done"

FinalSequence == IF result.file_count = 0 THEN result.transactions ELSE loaded

\* C3: when every spill file was read back, the final sequence of an
\* extraction is the full reverse of the concatenation, in fetch order, of the
\* relevant invocations of all pages.
C3_FinalSequenceIsFullReverse ==
    (mode = "fetch" /\ Delivered /\ read_failures = {})
        => FinalSequence = Reverse(RelevantOfAll(Flatten(pages)))

\* A run that spilled twice or more, whose files held several records each.
C3_Witness ==
    /\ mode = "fetch" /\ pc = "done" /\ read_failures = {}
    /\ result.file_count >= 2
    /\ Len(loaded) >= 5
    /\ loaded[1]["id"] # loaded[Len(loaded)]["id"]

----------------------------------------------------------------------------
\* The loop is between two pages, or has just ended.
BetweenPages == mode = "fetch" /\ pc \in {"fetch", "flush"}

\* The step that ends the processing of a page (lines 259-276).
PageAdded == pc = "process" /\ pc' \in {"fetch", "flush"}

\* C5: after each page the buffer holds at most max_transactions_in_memory
\* records; a page that takes the buffer strictly over the threshold makes the
\* whole buffer go to the file numbered file_count, empties the buffer and
\* adds one to file_count, and otherwise nothing is written; the file indexes
\* used in a run are 0, 1, 2, ... in this order.
C5_BufferBoundedBySpill ==
    /\ [](BetweenPages => Len(all_transactions) <= threshold)
    /\ [](mode = "fetch" => \A k \in DOMAIN writes : writes[k] = k - 1)
    /\ [][(mode = "fetch" /\ PageAdded) =>
            LET buffer == all_transactions \o relevant_txs
            IN  IF Len(buffer) > threshold
                THEN /\ files' = Put(files, file_count, buffer)
                     /\ writes' = Append(writes, file_count)
                     /\ all_transactions' = <<>>
                     /\ file_count' = file_count + 1
                ELSE /\ files' = files
                     /\ writes' = writes
                     /\ all_transactions' = buffer
                     /\ file_count' = file_count]_vars

\* After a spill, a page has filled the buffer exactly to the threshold and
\* nothing was written for it.
C5_Witness ==
    /\ BetweenPages
    /\ writes = <<0>>
    /\ Len(all_transactions) = threshold

----------------------------------------------------------------------------
\* The first place of an id in a list of ids (0 when it is not there).
FirstPlace(ids, id) ==
    IF \E i \in DOMAIN ids : ids[i] = id
    THEN CHOOSE i \in DOMAIN ids : ids[i] = id /\ \A j \in 1..(i - 1) : ids[j] # id
    ELSE 0

\* The records the run holds: buffers, the files it wrote, what it returned
\* and what was loaded back.
RunFiles == { i \in DOMAIN files : \E k \in DOMAIN writes : writes[k] = i }

HeldIds ==
    { all_transactions[i]["id"] : i \in DOMAIN all_transactions }
    \cup { relevant_txs[i]["id"] : i \in DOMAIN relevant_txs }
    \cup { loaded[i]["id"] : i \in DOMAIN loaded }
    \cup { result.transactions[i]["id"] : i \in DOMAIN result.transactions }
    \cup UNION { { files[f][i]["id"] : i \in DOMAIN files[f] } : f \in RunFiles }

KeptIds == { Flatten(pages)[i] : i \in DOMAIN Flatten(pages) }

\* C6: with a non-empty last_processed_id, a page holding that id is cut
\* there: the transactions before it are kept, it and the ones after it
\* contribute nothing, and no further page is requested; and a page that is
\* empty after filtering is the last one requested.
C6_SentinelStopsPaging ==
    mode = "fetch" =>
        /\ \A k \in DOMAIN replies :
             LET place == FirstPlace(replies[k], last_processed_id)
             IN  /\ (last_processed_id # "" /\ place > 0) =>
                        /\ pages[k] = SubSeq(replies[k], 1, place - 1)
                        /\ k = Len(requests)
                 /\ (pages[k] = <<>>) => k = Len(requests)
        /\ HeldIds \subseteq KeptIds

\* The sentinel is the second transaction of the second page, the history
\* goes on after that page, and the run has returned after two requests.
C6_Witness ==
    /\ mode = "fetch" /\ pc \in {"returned", "done"}
    /\ Len(history) = 5
    /\ last_processed_id = "4"
    /\ replies = << <<"1", "2">>, <<"3", "4">> >>
    /\ pages = << <<"1", "2">>, <<"3">> >>
    /\ Len(requests) = 2
    /\ HeldIds # {}

----------------------------------------------------------------------------
\* A step in which a page request fails.
RequestFailed ==
    /\ pc = "fetch"
    /\ Len(requests') = Len(requests) + 1
    /\ Len(replies') = Len(replies)

\* C7: a failed page request is not made again: the failure is raised, nothing
\* is returned, no further page is requested and the spill files written
\* earlier in the run stay in place.
C7_FetchFailureRaised ==
    /\ [][(mode = "fetch" /\ RequestFailed) =>
            /\ pc' = "raised" /\ error' = "RuntimeError"
            /\ result' = NoResult
            /\ files' = files]_vars
    /\ [][(mode = "fetch" /\ pc = "raised") => UNCHANGED <<requests, files, result>>]_vars
    /\ [](mode = "fetch" /\ pc = "raised" /\ error = "RuntimeError" =>
            /\ Cardinality({ k \in DOMAIN requests : requests[k] = requests[Len(requests)] }) = 1
            /\ \A k \in DOMAIN writes : Has(files, writes[k])
            /\ result = NoResult)

\* The third request failed after the first two pages had been spilled.
C7_Witness ==
    /\ mode = "fetch" /\ pc = "raised" /\ error = "RuntimeError"
    /\ Len(requests) = 3 /\ Len(replies) = 2
    /\ writes # <<>>
    /\ \A k \in DOMAIN writes : Has(files, writes[k])

----------------------------------------------------------------------------
(* The scenario of three pages of 1000, 1000 and 400 transactions, each    *)
(* with one relevant invocation, and a spill threshold of 1500. Some of    *)
(* the first MaxVaried transactions carry a nested invocation of another   *)
(* dApp, which is not relevant.                                            *)

MaxVaried == 7

InitScenario ==
    /\ mode = "scenario"
    /\ limit = DefaultLimit
    /\ threshold = 1500
    /\ \E callers \in SUBSET (1..MaxVaried) :
           history = [n \in 1..(1000 + 1000 + 400) |->
                        IF n \in callers THEN "callee" ELSE "leaf"]
    /\ last_processed_id = ""
    /\ files = EmptyDict
    /\ FetchStart
    /\ DownstreamIdle

SpecScenario == InitScenario /\ [][Next]_vars

\* Paging has ended (the loop is left) or the drain is at its start.
PagingEnded == pc = "flush"
DrainStarts == pc = "load" /\ file_index = result.file_count - 1 /\ loaded = <<>>

\* C4 as stated: exactly one spill file has been created when paging ends
\* and the drain routine starts.
C4_OneFileWhenDrainStarts ==
    (mode = "scenario" /\ (PagingEnded \/ DrainStarts)) => Len(writes) = 1

\* C4 as amended: when the paging loop ends exactly one spill file exists, with
\* the 2000 records of the first two pages, and 400 records are in memory; the
\* save of what is left writes them to a second file before the call returns,
\* so two files, of 2000 and 400 records, exist when the drain starts.
C4_OneFileInLoopTwoAtDrain ==
    mode = "scenario" =>
        /\ PagingEnded =>
             /\ writes = <<0>> /\ file_count = 1
             /\ Len(files[0]) = 2000
             /\ Len(all_transactions) = 400
        /\ (pc \in {"returned", "load", "done"}) =>
             /\ writes = <<0, 1>>
             /\ result.file_count = 2 /\ result.transactions = <<>>
        /\ DrainStarts =>
             /\ DOMAIN files = {0, 1}
             /\ Len(files[0]) = 2000 /\ Len(files[1]) = 400

C4_Witness ==
    /\ mode = "scenario" /\ DrainStarts
    /\ Len(pages) = 3
    /\ Len(pages[1]) = 1000 /\ Len(pages[2]) = 1000 /\ Len(pages[3]) = 400

----------------------------------------------------------------------------
(* AssetMapping: the asset registry and the amount normalisation           *)

WAVES_ID == "WAVES"
PUZZLE_TOKEN_ID == "HEB8Qaw9xrWpWs8tHsiATYGBWDBtP2S7kcPALrMu43AS"
USDN_ID == "DG2xFkPdDwKUoBkzGAhQtLpSGzfXLiCYPEzeKH2Ad24p"
USDT_ID == "34N9YcEETLWn93qYQ64EsP1x89tSruJU44RrEMSXXEPJ"
USDC_ID == "6nSpVyNH7yM69eg446wrQR94ipbbcmZMU1ENPwanC97g"

\* get_all_assets: the decimals of the assets of MAJOR_ASSETS, DEFI_TOKENS
\* and LP_TOKENS.
AssetDecimals ==
    (WAVES_ID :> 8) @@ (PUZZLE_TOKEN_ID :> 8) @@ (USDN_ID :> 6) @@ (USDT_ID :> 6)
    @@ ("8LQW8f7P5d5PZM7GtZEBgaqRPGSzS3DfPuiXrURJ4AJS" :> 8)
    @@ ("474jTeYx2r2Va35794tCScAXWJG9hU2HcgxzMowaZUnu" :> 8)
    @@ (USDC_ID :> 6)
    @@ ("Ehie5xYpeN8op1Cctc6aGUrqx8jq3jtf1DSjXDbfm7aT" :> 8)
    @@ ("6XtHjpXbs9RRJP2Sr9GUyVqzACcby9TkThHXnjVC5CDJ" :> 8)
    @@ ("AAHG5gzQeWfqhR9K4rptpyDDoo9SgAEiEsQEP1Rge2zG" :> 8)
    @@ ("3P2uzAzX9XTu1t32GkWw68YFFLwtapWvDds_LP" :> 8)
    @@ ("3PJaBXZu5rNjKJhZLYnHjhKdDhqUGdZgLzs_LP" :> 8)

\* An asset id that the registry does not hold.
UnknownAsset == "unknown_asset"

\* The fallback written as 6 instead of 8.
GetAssetDecimalsFallbackSix(id) ==
    IF id \in DOMAIN AssetDecimals THEN AssetDecimals[id] ELSE 6

\* get_asset_decimals: the registry's decimals, 8 for an unknown asset.
GetAssetDecimals(id) ==
    IF id \in DOMAIN AssetDecimals THEN AssetDecimals[id] ELSE 8

\* A Decimal is coef * 10^exp; Decimal(n) of an int is exact.
Decimal(n) == [coef |-> n, exp |-> 0]

RECURSIVE Pow10(_)
Pow10(k) == IF k = 0 THEN 1 ELSE 10 * Pow10(k - 1)

\* The k with 10^k = n, for n a power of ten.
RECURSIVE Log10(_)
Log10(n) == IF n = 1 THEN 0 ELSE 1 + Log10(n \div 10)

\* a / 10^k for a Decimal a: the quotient is exact, and its exponent is the
\* one closest to that of a (the ideal exponent of a division) that still
\* represents it.  A zero dividend keeps its exponent.
RECURSIVE DivideByPow10(_, _)
DivideByPow10(a, k) ==
    IF a.coef = 0 \/ k = 0 THEN a
    ELSE IF a.coef % 10 = 0
         THEN DivideByPow10([coef |-> a.coef \div 10, exp |-> a.exp], k - 1)
         ELSE [coef |-> a.coef, exp |-> a.exp - k]

\* Decimal.__truediv__ for a divisor that is a power of ten, as
\* normalize_amount uses it.  The quotients met here have far fewer than the
\* 28 digits of the default context, so no rounding takes place.
DecimalDivide(a, b) == DivideByPow10(a, Log10(b.coef) + b.exp)

\* normalize_amount: Decimal(raw_amount) / Decimal(10**decimals).
NormalizeAmount(id, raw) ==
    LET decimals == GetAssetDecimals(id)
    IN  DecimalDivide(Decimal(raw), Decimal(Pow10(decimals)))

\* The state of the extractor in behaviours that do not exercise it.
ExtractorIdle ==
    /\ transaction = EmptyDict /\ vip_functions = <<>> /\ found = NotRun
    /\ FetchIdle

\* Raw amounts, in the smallest unit of the asset.
RawAmounts ==
    { 0, 1, 7, 10, 100, 123456, 1000000, 1500000, 2000000, 100000000,
      150000000, 123456789, 2000000000, 2147483647 }

InitAmount ==
    /\ mode = "amount"
    /\ pc = "call"
    /\ ExtractorIdle
    /\ transactions = <<>> /\ swaps = <<>>
    /\ asset_id \in (DOMAIN AssetDecimals) \cup { UnknownAsset }
    /\ raw_amount \in RawAmounts
    /\ normalized = None
    /\ LaterIdleBut("")

CallNormalizeAmount ==
    /\ mode = "amount"
    /\ pc = "call"
    /\ normalized' = NormalizeAmount(asset_id, raw_amount)
    /\ pc' = "returned"
    /\ UNCHANGED <<mode, relevant_vars, config_vars, files, fetch_locals, drain_locals,
                   observed_vars, transform_vars, asset_id, raw_amount, later_vars>>

NextAmount == CallNormalizeAmount

SpecAmount == InitAmount /\ [][NextAmount]_vars

\* Two Decimals denote the same number.
SameNumber(a, b) ==
    LET low == IF a.exp <= b.exp THEN a.exp ELSE b.exp
    IN  a.coef * Pow10(a.exp - low) = b.coef * Pow10(b.exp - low)

\* The decimals the registry gives for the asset, 8 when it has none.
RegistryDecimals(id) == IF id \in DOMAIN AssetDecimals THEN AssetDecimals[id] ELSE 8

\* The Decimal d is exactly raw / 10^decimals.
IsExactQuotient(d, raw, decimals) ==
    /\ d.exp <= 0 /\ decimals + d.exp >= 0
    /\ d.coef * Pow10(decimals + d.exp) = raw

\* C10: normalize_amount(asset, raw) is exactly raw / 10^d, d being the
\* registry's decimals of the asset and 8 for an asset it does not hold;
\* 100000000 raw units of an 8-decimal asset and 1000000 raw units of a
\* 6-decimal asset both give exactly 1.0.
C10_NormalizeIsExactQuotient ==
    (mode = "amount" /\ pc = "returned") =>
        /\ IsExactQuotient(normalized, raw_amount, RegistryDecimals(asset_id))
        /\ (RegistryDecimals(asset_id) = 8 /\ raw_amount = 100000000)
               => SameNumber(normalized, [coef |-> 10, exp |-> -1])
        /\ (RegistryDecimals(asset_id) = 6 /\ raw_amount = 1000000)
               => SameNumber(normalized, [coef |-> 10, exp |-> -1])

\* An unregistered asset was normalised with 8 decimals: 150000000 gave 1.5.
C10_Witness ==
    /\ mode = "amount" /\ pc = "returned"
    /\ asset_id = UnknownAsset
    /\ raw_amount = 150000000
    /\ normalized = [coef |-> 15, exp |-> -1]

----------------------------------------------------------------------------
(* Address and function mappings used by the swap transformer              *)

\* functions.py: SWAP_FUNCTIONS.
SWAP_FUNCTIONS == <<"swap", "swapWithReferral", "swapToExactAmount", "swapFromExactAmount">>

\* is_swap_function.
IsSwapFunction(function_name) == InSeq(function_name, SWAP_FUNCTIONS)

\* A registered pool address; AddressMapping.get_pool_addresses.
PoolAddress == "3PFQjjDMiZKQZdu5JqTHD7HwgSXyp9Rw9By"

GetPoolAddresses == { PoolAddress }

\* FunctionMapping.extract_function_from_invoke: the name under
\* call.function, None when there is none.
ExtractFunctionFromInvoke(invoke_data) ==
    Get(Get(invoke_data, "call", EmptyDict), "function", NoneStr)

\* The truth value of an optional string: None and "" are false.
Truthy(v) == v \notin { NoneStr, "" }

\* v or default, for an optional string v.
Or(v, default) == IF Truthy(v) THEN v ELSE default

----------------------------------------------------------------------------
(* SwapTransformer                                                         *)

\* pipeline._transform_data: the WavesTransaction built from a dict of the
\* extractor, the dict itself kept as raw_data.
WavesTransaction(tx_dict) ==
    [id |-> tx_dict["id"], height |-> tx_dict["height"],
     timestamp |-> tx_dict["timestamp"], sender |-> tx_dict["sender"],
     type |-> tx_dict["type"], raw_data |-> tx_dict]

\* A WavesTransaction whose raw_data is None: the field is absent.
WithoutRawData(t) == [k \in (DOMAIN t) \ {"raw_data"} |-> t[k]]

\* _is_swap_transaction.
IsSwapTransaction(t) ==
    IF t["type"] # 16 THEN FALSE
    ELSE IF t["sender"] \in GetPoolAddresses THEN TRUE
    ELSE IF Has(t, "raw_data")
         THEN LET invoke_data == t["raw_data"]
                  d_app == Get(invoke_data, "dApp", NoneStr)
                  function_name == ExtractFunctionFromInvoke(invoke_data)
              IN  \/ Truthy(d_app) /\ d_app \in GetPoolAddresses
                  \/ Truthy(function_name) /\ IsSwapFunction(function_name)
         ELSE FALSE

\* _calculate_usd_value: no price source yet.
CalculateUsdValue(id, amount) == None

\* The place of the last transfer addressed to the sender (0 for none).
OutputTransferLastMatch(transfers, sender) ==
    LET hits == { i \in DOMAIN transfers : Get(transfers[i], "address", NoneStr) = sender }
    IN  IF hits = {} THEN 0 ELSE CHOOSE i \in hits : \A j \in hits : j <= i

\* Lines 136-140: the place of the first transfer addressed to the sender
\* (0 for none).
OutputTransfer(transfers, sender) ==
    LET hits == { i \in DOMAIN transfers : Get(transfers[i], "address", NoneStr) = sender }
    IN  IF hits = {} THEN 0 ELSE CHOOSE i \in hits : \A j \in hits : i <= j

\* Decimal(v) of a JSON value: a number converts, null raises TypeError.
\* The outcome is [raised, value].
DecimalOfJson(v) == IF v = None THEN Raised ELSE Returned(Decimal(v.int))

\* _extract_pool_fee: the value of the first data entry whose key holds
\* "fee", looked up under the stateChanges key of the dict given.
FeeKeys == { "fee", "poolFee", "Fee_total" }

ExtractPoolFee(d) ==
    LET data_entries == Get(Get(d, "stateChanges", EmptyDict), "data", <<>>)
        hits == { i \in DOMAIN data_entries : Get(data_entries[i], "key", "") \in FeeKeys }
        first == CHOOSE i \in hits : \A j \in hits : i <= j
    IN  IF hits = {} THEN None
        ELSE IF ~Has(data_entries[first], "value") THEN None
        ELSE LET fee == DecimalOfJson(data_entries[first]["value"])
             IN  IF fee.raised THEN None ELSE fee.value

\* _extract_protocol_fee: the amount of the first transfer to a fee
\* collector, looked up under the stateChanges key of the dict given.
ProtocolAddresses ==
    { "3PFTbywqxtFfukX3HyT881g4iW5K4QL3FAS", "3P4kBiU4wr2yV1S5gMfu3MdkVvy7kxXHsKe" }

ExtractProtocolFee(d) ==
    LET transfers == Get(Get(d, "stateChanges", EmptyDict), "transfers", <<>>)
        keyless == { i \in DOMAIN transfers : ~Has(transfers[i], "address") }
        hits == { i \in DOMAIN transfers :
                    Has(transfers[i], "address") /\ transfers[i]["address"] \in ProtocolAddresses }
        stop == (keyless \cup hits)
        first == CHOOSE i \in stop : \A j \in stop : i <= j
    IN  IF stop = {} THEN None
        ELSE IF first \in keyless \/ ~Has(transfers[first], "amount") THEN None
        ELSE LET fee == DecimalOfJson(transfers[first]["amount"])
             IN  IF fee.raised THEN None ELSE fee.value

\* Lines 164-174: the details dict returned.
SwapDetails(asset_in_id, asset_out_id, amount_in, amount_out, state_changes) ==
    [asset_in_id |-> asset_in_id,
     asset_out_id |-> asset_out_id,
     amount_in |-> amount_in,
     amount_out |-> amount_out,
     amount_in_usd |-> CalculateUsdValue(asset_in_id, amount_in),
     amount_out_usd |-> CalculateUsdValue(asset_out_id, amount_out),
     volume_usd |-> None,
     pool_fee |-> ExtractPoolFee(state_changes),
     protocol_fee |-> ExtractProtocolFee(state_changes)]

\* Lines 142-174, once the output transfer is found.  The outcome is
\* [raised, value].
ParseOutput(asset_in_id, amount_in, state_changes, output_transfer) ==
    LET asset_out_id == Or(Get(output_transfer, "asset", NoneStr), WAVES_ID)
        amount_out_raw == Get(output_transfer, "amount", Number(0))
    IN  IF output_transfer = EmptyDict THEN Returned(None)
        ELSE IF amount_out_raw = None THEN Raised
        ELSE Returned(SwapDetails(asset_in_id, asset_out_id, amount_in,
                                  NormalizeAmount(asset_out_id, amount_out_raw.int),
                                  state_changes))

\* Lines 131-140: the transfers of the state changes and the place of the
\* output transfer among them.
ParseTransfers(asset_in_id, amount_in, state_changes, transfers, place) ==
    IF place = 0 THEN Returned(None)
    ELSE ParseOutput(asset_in_id, amount_in, state_changes, transfers[place])

\* Lines 123-129: the input payment.
ParseInput(invoke_data, t, asset_in_id, amount_in_raw) ==
    IF amount_in_raw = None THEN Raised
    ELSE LET state_changes == Get(invoke_data, "stateChanges", EmptyDict)
             transfers == Get(state_changes, "transfers", <<>>)
         IN  ParseTransfers(asset_in_id, NormalizeAmount(asset_in_id, amount_in_raw.int),
                            state_changes, transfers, OutputTransfer(transfers, t["sender"]))

\* _parse_swap_details, lines 118-174: the body of the try.  The outcome is
\* [raised, value], value being the details dict or None.
ParseSwapDetailsBody(invoke_data, t) ==
    LET payments == Get(invoke_data, "payment", <<>>)
    IN  IF payments = <<>> THEN Returned(None)
        ELSE ParseInput(invoke_data, t,
                        Or(Get(payments[1], "assetId", NoneStr), WAVES_ID),
                        Get(payments[1], "amount", Number(0)))

\* except Exception: the error is logged and None returned.
Caught(outcome) == IF outcome.raised THEN Returned(None) ELSE outcome

\* _parse_swap_details, with its except (lines 176-178).
ParseSwapDetails(invoke_data, t) == Caught(ParseSwapDetailsBody(invoke_data, t))

\* The datetime pydantic makes of an epoch number.
Datetime(timestamp) == [epoch |-> timestamp]

\* Lines 89-107: the SwapData made of the details.
SwapData(t, d_app, swap_details) ==
    [id |-> t["id"] \o "_" \o swap_details["asset_in_id"]
                    \o "_" \o swap_details["asset_out_id"],
     transaction_id |-> t["id"],
     height |-> t["height"],
     timestamp |-> Datetime(t["timestamp"]),
     pool_address |-> d_app,
     trader_address |-> t["sender"],
     asset_in_id |-> swap_details["asset_in_id"],
     asset_out_id |-> swap_details["asset_out_id"],
     amount_in |-> swap_details["amount_in"],
     amount_out |-> swap_details["amount_out"],
     amount_in_usd |-> swap_details["amount_in_usd"],
     amount_out_usd |-> swap_details["amount_out_usd"],
     volume_usd |-> swap_details["volume_usd"],
     pool_fee |-> swap_details["pool_fee"],
     protocol_fee |-> swap_details["protocol_fee"]]

\* Lines 84-107: what is made of the outcome of _parse_swap_details.
SwapDataOfDetails(t, d_app, parsed) ==
    IF parsed.raised THEN Raised
    ELSE IF parsed.value = None THEN Returned(None)
    ELSE Returned(SwapData(t, d_app, parsed.value))

\* Lines 73-107, for raw data that is a dict.
ExtractFromInvoke(t, invoke_data, d_app, function_name) ==
    IF ~Truthy(d_app) THEN Returned(None)
    ELSE IF ~Truthy(function_name) \/ ~IsSwapFunction(function_name) THEN Returned(None)
    ELSE SwapDataOfDetails(t, d_app, ParseSwapDetails(invoke_data, t))

\* _extract_swap_data, lines 69-107: the body of the try.
ExtractSwapDataBody(t) ==
    IF ~Has(t, "raw_data") THEN Returned(None)
    ELSE ExtractFromInvoke(t, t["raw_data"], Get(t["raw_data"], "dApp", NoneStr),
                           ExtractFunctionFromInvoke(t["raw_data"]))

\* _extract_swap_data, with its except (lines 109-111).
ExtractSwapData(t) == Caught(ExtractSwapDataBody(t))

\* Lines 245-246: the event, if there is one, is appended.
Appended(swap_data) ==
    IF swap_data.raised THEN Raised
    ELSE IF swap_data.value # None THEN Returned(<< swap_data.value >>)
    ELSE Returned(<<>>)

\* Lines 242-246 for one transaction: the events it adds to swaps, or the
\* exception that leaves the loop.
SwapsOf(t) == IF IsSwapTransaction(t) THEN Appended(ExtractSwapData(t)) ELSE Returned(<<>>)

\* The events collected up to the first transaction in `failing`.
CollectedUntil(each, failing) ==
    LET stop == IF failing = {} THEN Len(each) + 1
                ELSE CHOOSE i \in failing : \A j \in failing : i <= j
    IN  Returned(Flatten([i \in 1..(stop - 1) |-> each[i].value]))

\* The loop left at the first swap transaction that gives no event.
TransformTransactionsStoppingAtFailure(txs) ==
    CollectedUntil([i \in DOMAIN txs |-> SwapsOf(txs[i])],
                   { i \in DOMAIN txs : IsSwapTransaction(txs[i]) /\ SwapsOf(txs[i]).value = <<>> })

\* Lines 242-260: swaps when the loop ends; an exception in the loop is
\* logged and raised again.
Collected(each) ==
    IF \E i \in DOMAIN each : each[i].raised THEN Raised
    ELSE Returned(Flatten([i \in DOMAIN each |-> each[i].value]))

\* transform_transactions.
TransformTransactions(txs) == Collected([i \in DOMAIN txs |-> SwapsOf(txs[i])])

----------------------------------------------------------------------------
(* The transactions given to the swap transformer                          *)

\* Largest number of transactions in one input list.
MaxTxs == 3

\* The payment list of an invocation ("absent": no payment key).
PaymentChoices == { "absent", "empty", "waves", "bare", "usdn_waves", "unknown", "null_amount" }

PaymentOf(choice) ==
    CASE choice = "empty" -> <<>>
      [] choice = "waves" -> << [assetId |-> NoneStr, amount |-> Number(100000000)] >>
      [] choice = "bare" -> << EmptyDict >>
      [] choice = "usdn_waves" -> << [assetId |-> USDN_ID, amount |-> Number(2000000)],
                                     [assetId |-> NoneStr, amount |-> Number(5)] >>
      [] choice = "unknown" -> << [assetId |-> UnknownAsset, amount |-> Number(123456789)] >>
      [] choice = "null_amount" -> << [assetId |-> NoneStr, amount |-> None] >>

\* The stateChanges of an invocation ("absent": no stateChanges key).
TransferChoices ==
    { "absent", "empty", "other", "usdn", "crowd", "bare", "null_amount", "fees" }

TransfersOf(choice) ==
    CASE choice = "empty" -> <<>>
      [] choice = "other" ->
           << [address |-> OtherAddress, asset |-> PUZZLE_TOKEN_ID, amount |-> Number(7)] >>
      [] choice = "usdn" ->
           << [address |-> UserAddress, asset |-> USDN_ID, amount |-> Number(2000000)] >>
      [] choice = "crowd" ->
           << [address |-> OtherAddress, asset |-> PUZZLE_TOKEN_ID, amount |-> Number(7)],
              [address |-> UserAddress, asset |-> NoneStr, amount |-> Number(150000000)],
              [address |-> UserAddress, asset |-> USDN_ID, amount |-> Number(1)] >>
      [] choice = "bare" -> << [address |-> UserAddress] >>
      [] choice = "null_amount" ->
           << [address |-> UserAddress, asset |-> USDN_ID, amount |-> None] >>
      [] choice = "fees" ->
           << [address |-> "3P4kBiU4wr2yV1S5gMfu3MdkVvy7kxXHsKe", asset |-> USDN_ID,
               amount |-> Number(3)],
              [address |-> UserAddress, asset |-> USDN_ID, amount |-> Number(2000000)],
              [address |-> "3PFTbywqxtFfukX3HyT881g4iW5K4QL3FAS", asset |-> USDN_ID,
               amount |-> Number(4)] >>

\* The data entries the invocation wrote ("fees": a balance, then two fees).
DataOf(choice) ==
    << [key |-> "balance", value |-> Number(9)],
       [key |-> "poolFee", value |-> Number(25)],
       [key |-> "Fee_total", value |-> Number(40)] >>

\* The stateChanges dict of an invocation.
StateChanges(choice) ==
    IF choice = "fees"
    THEN [transfers |-> TransfersOf(choice), data |-> DataOf(choice)]
    ELSE [transfers |-> TransfersOf(choice)]

\* An invocation dict as the extractor yields it.
Invocation(n, label, pay, out) ==
    LET node == Update(Leaf(label), Envelope(n, 16))
        paid == IF pay = "absent" THEN node ELSE Put(node, "payment", PaymentOf(pay))
    IN  IF out = "absent" THEN paid
        ELSE Put(paid, "stateChanges", StateChanges(out))

\* What else a transaction of the list can be.
OtherKinds ==
    { "transfer", "init", "no_raw_data", "pool_sender", "pool_init", "no_dapp", "referral" }

ShapeWavesTx(n, shape) ==
    CASE shape.kind = "swap" ->
           WavesTransaction(Invocation(n, <<TargetAddress, "swap">>, shape.pay, shape.out))
      [] shape.kind = "referral" ->
           WavesTransaction(Invocation(n, <<TargetAddress, "swapWithReferral">>,
                                       shape.pay, shape.out))
      [] shape.kind = "init" ->
           WavesTransaction(Invocation(n, <<TargetAddress, "init">>, shape.pay, shape.out))
      [] shape.kind = "pool_init" ->
           WavesTransaction(Invocation(n, <<PoolAddress, "init">>, shape.pay, shape.out))
      [] shape.kind = "no_dapp" ->
           WavesTransaction(Invocation(n, <<NoneStr, "swap">>, shape.pay, shape.out))
      [] shape.kind = "transfer" ->
           WavesTransaction(TransferTx(n, "succeeded"))
      [] shape.kind = "no_raw_data" ->
           WithoutRawData(WavesTransaction(
               Invocation(n, <<TargetAddress, "swap">>, shape.pay, shape.out)))
      [] shape.kind = "pool_sender" ->
           WithoutRawData(WavesTransaction(
               Put(Invocation(n, <<TargetAddress, "init">>, shape.pay, shape.out),
                   "sender", PoolAddress)))

Shape(kind, pay, out) == [kind |-> kind, pay |-> pay, out |-> out]

\* Every shape of a single transaction.
SwapShapes ==
    { Shape("swap", pay, out) : pay \in PaymentChoices, out \in TransferChoices }
    \cup { Shape(kind, "waves", "usdn") : kind \in OtherKinds }

\* The shapes that lists of several transactions are made of.
CoreShapes ==
    { Shape("swap", "waves", "usdn"), Shape("swap", "usdn_waves", "crowd"),
      Shape("referral", "unknown", "bare"),
      Shape("swap", "absent", "usdn"), Shape("swap", "waves", "other"),
      Shape("swap", "null_amount", "usdn"), Shape("swap", "waves", "null_amount"),
      Shape("init", "waves", "usdn"), Shape("pool_init", "waves", "usdn") }

InitSwap ==
    /\ mode = "swap"
    /\ pc = "call"
    /\ ExtractorIdle
    /\ asset_id = "" /\ raw_amount = 0 /\ normalized = None
    /\ LaterIdleBut("")
    /\ \E n \in 0..MaxTxs :
         \E shapes \in [1..n -> IF n = 1 THEN SwapShapes \cup CoreShapes ELSE CoreShapes] :
           transactions = [i \in 1..n |-> ShapeWavesTx(i, shapes[i])]
    /\ swaps = <<>>

\* transform_transactions is called on the list and returns or raises.
CallTransformTransactions ==
    /\ mode = "swap"
    /\ pc = "call"
    /\ LET outcome == TransformTransactions(transactions)
       IN  /\ swaps' = outcome.value
           /\ pc' = IF outcome.raised THEN "raised" ELSE "returned"
    /\ UNCHANGED <<mode, relevant_vars, config_vars, files, fetch_locals, drain_locals,
                   observed_vars, transactions, amount_vars, later_vars>>

NextSwap == CallTransformTransactions

SpecSwap == InitSwap /\ [][NextSwap]_vars

----------------------------------------------------------------------------
\* The place in the input list of the transaction an event was made from.
EventPlace(e) == CHOOSE i \in DOMAIN transactions : transactions[i]["id"] = e["transaction_id"]

\* The payments and the transfers of a transaction, read from its raw data.
PaymentsIn(t) == IF Has(t, "raw_data") THEN Get(t["raw_data"], "payment", <<>>) ELSE <<>>

TransfersIn(t) ==
    IF Has(t, "raw_data")
    THEN Get(Get(t["raw_data"], "stateChanges", EmptyDict), "transfers", <<>>)
    ELSE <<>>

ToSender(t) ==
    { i \in DOMAIN TransfersIn(t) : Get(TransfersIn(t)[i], "address", NoneStr) = t["sender"] }

FirstPayment(t) == PaymentsIn(t)[1]

FirstTransferToSender(t) ==
    TransfersIn(t)[CHOOSE i \in ToSender(t) : \A j \in 1..(i - 1) : j \notin ToSender(t)]

\* The asset id under the key, "WAVES" when it is null or absent.
AssetOrWaves(d, key) == IF Has(d, key) /\ d[key] # NoneStr THEN d[key] ELSE "WAVES"

HasNumber(d) == Has(d, "amount") => d["amount"] # None

RawOf(d) == IF Has(d, "amount") THEN d["amount"].int ELSE 0

\* A swap-function invocation with a payment and a transfer to its sender.
SwapWithPaymentAndTransfer(t) ==
    /\ t["type"] = 16
    /\ Has(t, "raw_data")
    /\ Has(t["raw_data"], "dApp")
    /\ Has(t["raw_data"], "call")
    /\ t["raw_data"]["call"]["function"]
         \in { "swap", "swapWithReferral", "swapToExactAmount", "swapFromExactAmount" }
    /\ PaymentsIn(t) # <<>>
    /\ ToSender(t) # {}

EventsFor(t) == { k \in DOMAIN swaps : swaps[k]["transaction_id"] = t["id"] }

OnePointZero == [coef |-> 10, exp |-> -1]
TwoPointZero == [coef |-> 20, exp |-> -1]

----------------------------------------------------------------------------
\* A swap-classified transaction with no payment, with no transfer to its
\* sender, or whose parsing raises on a null amount.
NullAmount(t) ==
    \/ PaymentsIn(t) # <<>> /\ ~HasNumber(FirstPayment(t))
    \/ PaymentsIn(t) # <<>> /\ ToSender(t) # {} /\ ~HasNumber(FirstTransferToSender(t))

Unparsable(t) ==
    /\ IsSwapTransaction(t)
    /\ (PaymentsIn(t) = <<>> \/ ToSender(t) = {} \/ NullAmount(t))

\* The events each transaction gives when it is transformed on its own,
\* those of the unparsable transactions left out, in input order.
EventsOfTheOthers ==
    Flatten([i \in DOMAIN transactions |->
               IF Unparsable(transactions[i]) THEN <<>>
               ELSE TransformTransactions(<< transactions[i] >>).value])

----------------------------------------------------------------------------
(* AssetMapping.denormalize_amount and the round trips                     *)

\* a * Decimal(10**k): the product is exact.  Python keeps the digits
\* a.coef * 10^k with the exponent of a; the same number is written here with
\* the exponent raised by k, which keeps the coefficient within 32 bits.
MultiplyByPow10(a, k) == [coef |-> a.coef, exp |-> a.exp + k]

\* Decimal.__mul__ for a factor that is a power of ten.
DecimalMultiply(a, b) == MultiplyByPow10(a, Log10(b.coef) + b.exp)

\* int(Decimal): the integer part, truncated towards zero.
IntOfDecimal(a) ==
    IF a.exp >= 0 THEN a.coef * Pow10(a.exp)
    ELSE IF a.coef >= 0 THEN a.coef \div Pow10(-a.exp)
         ELSE -((-a.coef) \div Pow10(-a.exp))

\* The conversion done with 6 decimals whatever the asset.
DenormalizeAmountSixDecimals(id, amount) ==
    IntOfDecimal(DecimalMultiply(amount, Decimal(Pow10(6))))

\* denormalize_amount: int(decimal_amount * Decimal(10**decimals)).
DenormalizeAmount(id, amount) ==
    LET decimals == GetAssetDecimals(id)
    IN  IntOfDecimal(DecimalMultiply(amount, Decimal(Pow10(decimals))))

\* Raw amounts of either sign.
SignedRawAmounts == RawAmounts \cup { -1, -7, -1500000, -2147483647 }

\* Decimal amounts whose raw amount fits in 32 bits for every asset: exact
\* multiples of the smallest unit (1.5, 1.50, 20, 0.00000001, ...) and amounts
\* finer than it.
DecimalAmounts ==
    { x \in [coef : { 0, 1, 7, 15, 150, 123456, -3, -25 }, exp : (-9)..1] :
        (IF x.coef >= 0 THEN x.coef ELSE -x.coef)
            <= 2147483647 \div Pow10(IF x.exp + 8 >= 0 THEN x.exp + 8 ELSE 0) }

InitRoundTrip ==
    /\ mode = "roundtrip"
    /\ pc = "call"
    /\ ExtractorIdle
    /\ transactions = <<>> /\ swaps = <<>>
    /\ LaterIdleBut("roundtrip")
    /\ asset_id \in (DOMAIN AssetDecimals) \cup { UnknownAsset }
    /\ \/ raw_amount \in SignedRawAmounts /\ decimal_amount = None
       \/ raw_amount = 0 /\ decimal_amount \in DecimalAmounts
    /\ normalized = None
    /\ denormalized = 0

\* normalize_amount(asset, n) of a raw amount n.
NormalizeRaw ==
    /\ mode = "roundtrip" /\ pc = "call" /\ decimal_amount = None
    /\ normalized' = NormalizeAmount(asset_id, raw_amount)
    /\ pc' = "normalized"
    /\ UNCHANGED <<mode, extractor_vars, transform_vars, asset_id, raw_amount,
                   later_vars>>

\* denormalize_amount(asset, .) of what normalize_amount returned.
DenormalizeNormalized ==
    /\ mode = "roundtrip" /\ pc = "normalized"
    /\ denormalized' = DenormalizeAmount(asset_id, normalized)
    /\ pc' = "returned"
    /\ UNCHANGED <<mode, extractor_vars, transform_vars, amount_vars, decimal_amount,
                   staking_vars, usd_vars, pipeline_vars, sink_vars>>

\* denormalize_amount(asset, x) of a Decimal x.
DenormalizeDecimal ==
    /\ mode = "roundtrip" /\ pc = "call" /\ decimal_amount # None
    /\ denormalized' = DenormalizeAmount(asset_id, decimal_amount)
    /\ pc' = "denormalized"
    /\ UNCHANGED <<mode, extractor_vars, transform_vars, amount_vars, decimal_amount,
                   staking_vars, usd_vars, pipeline_vars, sink_vars>>

\* normalize_amount(asset, .) of what denormalize_amount returned.
NormalizeDenormalized ==
    /\ mode = "roundtrip" /\ pc = "denormalized"
    /\ normalized' = NormalizeAmount(asset_id, denormalized)
    /\ pc' = "returned"
    /\ UNCHANGED <<mode, extractor_vars, transform_vars, asset_id, raw_amount,
                   later_vars>>

NextRoundTrip ==
    \/ NormalizeRaw
    \/ DenormalizeNormalized
    \/ DenormalizeDecimal
    \/ NormalizeDenormalized

SpecRoundTrip == InitRoundTrip /\ [][NextRoundTrip]_vars

\* The Decimal x is an exact multiple of 10^-decimals.
IsMultipleOfUnit(x, decimals) ==
    \/ x.exp + decimals >= 0
    \/ x.coef % Pow10(-(x.exp + decimals)) = 0

\* C11: for every asset, a Decimal x that is an exact multiple of 10^-d (d the
\* registry's decimals, 8 for an unknown asset) comes back from
\* normalize_amount(denormalize_amount(x)) as the same number, and a raw
\* integer n comes back from denormalize_amount(normalize_amount(n)) as n.
C11_RoundTrips ==
    (mode = "roundtrip" /\ pc = "returned") =>
        IF decimal_amount = None
        THEN denormalized = raw_amount
        ELSE IsMultipleOfUnit(decimal_amount, RegistryDecimals(asset_id))
                 => SameNumber(normalized, decimal_amount)

\* 1.50 of a 6-decimal asset went through 1500000 and came back as 1.5.
C11_Witness ==
    /\ mode = "roundtrip" /\ pc = "returned"
    /\ asset_id = USDN_ID
    /\ decimal_amount = [coef |-> 150, exp |-> -2]
    /\ denormalized = 1500000
    /\ normalized = [coef |-> 15, exp |-> -1]

----------------------------------------------------------------------------
(* StakingTransformer.aggregate_staking_stats                              *)

MaxEvents == 3

\* Decimal.__add__ and __sub__: exact, with the smaller of the two exponents.
DecimalAdd(a, b) ==
    LET low == IF a.exp <= b.exp THEN a.exp ELSE b.exp
    IN  [coef |-> a.coef * Pow10(a.exp - low) + b.coef * Pow10(b.exp - low), exp |-> low]

DecimalSubtract(a, b) == DecimalAdd(a, [coef |-> -b.coef, exp |-> b.exp])

\* The branch of stake_update adding the amount as a stake does.
ApplyEventUpdateAdds(balance, event) ==
    IF event["event_type"] \in { "stake", "stake_update" }
    THEN DecimalAdd(balance, event["amount"])
    ELSE IF event["event_type"] = "unstake" THEN DecimalSubtract(balance, event["amount"])
    ELSE balance

\* Lines 332-338: what one event does to the balance of its staker.
ApplyEvent(balance, event) ==
    IF event["event_type"] = "stake" THEN DecimalAdd(balance, event["amount"])
    ELSE IF event["event_type"] = "unstake" THEN DecimalSubtract(balance, event["amount"])
    ELSE IF event["event_type"] = "stake_update" THEN event["amount"]
    ELSE balance

\* Lines 328-330: the staker gets a balance of Decimal(0) when it has none.
\* keys is the insertion order of the dict.
WithStaker(b, staker) ==
    IF Has(b.balances, staker) THEN b
    ELSE [keys |-> Append(b.keys, staker), balances |-> Put(b.balances, staker, Decimal(0))]

AfterEvent(b, event) ==
    [keys |-> b.keys,
     balances |-> Put(b.balances, event["staker_address"],
                      ApplyEvent(b.balances[event["staker_address"]], event))]

\* Lines 325-338: staker_balances after the first n events.
RECURSIVE StakerBalances(_, _)
StakerBalances(evs, n) ==
    IF n = 0 THEN [keys |-> <<>>, balances |-> EmptyDict]
    ELSE AfterEvent(WithStaker(StakerBalances(evs, n - 1), evs[n]["staker_address"]), evs[n])

\* sum(active_stakers.values()): from the left, in the insertion order of the
\* dict, starting from 0.
RECURSIVE SumActive(_, _, _)
SumActive(keys, balances, n) ==
    IF n = 0 THEN Decimal(0)
    ELSE IF balances[keys[n]].coef > 0
         THEN DecimalAdd(SumActive(keys, balances, n - 1), balances[keys[n]])
         ELSE SumActive(keys, balances, n - 1)

ActiveStakers(balances) ==
    LET active == { k \in DOMAIN balances : balances[k].coef > 0 }
    IN  [k \in active |-> balances[k]]

StatsOf(b, ts) ==
    [timestamp |-> ts,
     total_staked |-> SumActive(b.keys, b.balances, Len(b.keys)),
     unique_stakers |-> Cardinality(DOMAIN ActiveStakers(b.balances)),
     staker_balances |-> ActiveStakers(b.balances)]

\* aggregate_staking_stats.
AggregateStakingStats(evs, ts) == StatsOf(StakerBalances(evs, Len(evs)), ts)

Stakers == { "3PStakerA", "3PStakerB" }
EventTypes == { "stake", "unstake", "stake_update", "claim" }
EventAmounts == { Decimal(100), Decimal(30), [coef |-> 305, exp |-> -1] }

\* The n-th event of a list given to aggregate_staking_stats.
StakingEvent(n, staker, type, amount) ==
    [id |-> ToString(n) \o "_" \o type, transaction_id |-> ToString(n), height |-> n,
     timestamp |-> Datetime(n), staker_address |-> staker, event_type |-> type,
     amount |-> amount, amount_usd |-> None]

InitAggregate ==
    /\ mode = "aggregate"
    /\ pc = "call"
    /\ ExtractorIdle
    /\ transactions = <<>> /\ swaps = <<>>
    /\ asset_id = "" /\ raw_amount = 0 /\ normalized = None
    /\ LaterIdleBut("staking")
    /\ \E n \in 0..MaxEvents :
         \E choice \in [1..n -> Stakers \X EventTypes \X EventAmounts] :
           events = [i \in 1..n |->
                       StakingEvent(i, choice[i][1], choice[i][2], choice[i][3])]
    /\ stats_timestamp = Datetime(0)
    /\ stats = None

CallAggregateStakingStats ==
    /\ mode = "aggregate"
    /\ pc = "call"
    /\ stats' = AggregateStakingStats(events, stats_timestamp)
    /\ pc' = "returned"
    /\ UNCHANGED <<mode, extractor_vars, transform_vars, amount_vars, roundtrip_vars,
                   events, stats_timestamp, usd_vars, pipeline_vars, sink_vars>>

NextAggregate == CallAggregateStakingStats

SpecAggregate == InitAggregate /\ [][NextAggregate]_vars

\* The amount in tenths, the finest unit of the amounts given.
Tenths(a) == a.coef * Pow10(a.exp + 1)

\* The reference fold: the balance of the staker, in tenths, after the first
\* n events.
RECURSIVE ReferenceBalance(_, _, _)
ReferenceBalance(staker, evs, n) ==
    IF n = 0 THEN 0
    ELSE LET before == ReferenceBalance(staker, evs, n - 1)
             type == evs[n]["event_type"]
             amount == Tenths(evs[n]["amount"])
         IN  IF evs[n]["staker_address"] # staker THEN before
             ELSE CASE type = "stake" -> before + amount
                    [] type = "unstake" -> before - amount
                    [] type = "stake_update" -> amount
                    [] OTHER -> before

RECURSIVE SumOver(_, _)
SumOver(f, set) ==
    IF set = {} THEN 0
    ELSE LET k == CHOOSE k \in set : TRUE IN f[k] + SumOver(f, set \ {k})

ReferenceFinal(evs) == [s \in Stakers |-> ReferenceBalance(s, evs, Len(evs))]

\* C12: aggregate_staking_stats is the left-to-right fold (stake adds, unstake
\* subtracts, stake_update replaces, any other type changes nothing, from 0):
\* the balances returned are those of exactly the stakers whose final balance
\* is positive, total_staked is their sum and unique_stakers their number; a
\* stake of 100 followed by a stake_update of 30 gives exactly 30.
C12_AggregateIsReferenceFold ==
    (mode = "aggregate" /\ pc = "returned") =>
        LET final == ReferenceFinal(events)
            positive == { s \in Stakers : final[s] > 0 }
        IN  /\ DOMAIN stats["staker_balances"] = positive
            /\ \A s \in positive : Tenths(stats["staker_balances"][s]) = final[s]
            /\ Tenths(stats["total_staked"]) = SumOver(final, positive)
            /\ stats["unique_stakers"] = Cardinality(positive)
            /\ \A s \in Stakers :
                 ( /\ Len(events) = 2
                   /\ events[1]["staker_address"] = s /\ events[2]["staker_address"] = s
                   /\ events[1]["event_type"] = "stake"
                   /\ events[1]["amount"] = Decimal(100)
                   /\ events[2]["event_type"] = "stake_update"
                   /\ events[2]["amount"] = Decimal(30) )
                 => /\ Has(stats["staker_balances"], s)
                    /\ SameNumber(stats["staker_balances"][s], Decimal(30))

\* A stake of 100 and then a stake_update of 30 of the same staker were
\* aggregated: the staker holds 30.
C12_Witness ==
    /\ mode = "aggregate" /\ pc = "returned"
    /\ Len(events) = 2
    /\ events[1]["staker_address"] = "3PStakerA" /\ events[1]["event_type"] = "stake"
    /\ events[1]["amount"] = Decimal(100)
    /\ events[2]["staker_address"] = "3PStakerA"
    /\ events[2]["event_type"] = "stake_update"
    /\ events[2]["amount"] = Decimal(30)
    /\ stats["staker_balances"] = ("3PStakerA" :> Decimal(30))
    /\ stats["unique_stakers"] = 1

----------------------------------------------------------------------------
(* StakingTransformer.transform_transactions                               *)

STAKING_FUNCTIONS ==
    { "stake", "unstake", "claim", "claimReward", "claimIndexRewards", "unstakeIndex",
      "stakeIndex" }

\* is_staking_function.
IsStakingFunction(function_name) == function_name \in STAKING_FUNCTIONS

PUZZLE_STAKING_ADDRESS == "3PFTbywqxtFfukX3HyT881g4iW5K4QL3FAS"

\* _determine_event_type: the table of lines 111-119.
FunctionMappingTable ==
    ("stake" :> "stake") @@ ("unstake" :> "unstake") @@ ("withdraw" :> "unstake")
    @@ ("claim" :> "claim") @@ ("claimRewards" :> "claim") @@ ("compound" :> "compound")
    @@ ("emergencyWithdraw" :> "emergency_withdraw")

\* function_mapping.get(function_name): None for a name the table lacks.
DetermineEventType(function_name) == Get(FunctionMappingTable, function_name, NoneStr)

\* A plausible slip: the asset of the first payment is not looked at.
StakeAmountAnyAsset(payments) ==
    IF payments = <<>> THEN Returned(Decimal(0))
    ELSE IF Get(payments[1], "amount", Number(0)) = None THEN Raised
    ELSE Returned(NormalizeAmount(PUZZLE_TOKEN_ID,
                                  Get(payments[1], "amount", Number(0)).int))

\* Lines 131-137: the amount of a stake is that of the first payment when it
\* is made in the Puzzle token, and 0 otherwise.  The outcome is
\* [raised, value]: Decimal(None) of a null amount raises TypeError.
StakeAmount(payments) ==
    IF payments = <<>> THEN Returned(Decimal(0))
    ELSE IF Or(Get(payments[1], "assetId", NoneStr), WAVES_ID) # PUZZLE_TOKEN_ID
         THEN Returned(Decimal(0))
    ELSE IF Get(payments[1], "amount", Number(0)) = None THEN Raised
    ELSE Returned(NormalizeAmount(PUZZLE_TOKEN_ID,
                                  Get(payments[1], "amount", Number(0)).int))

\* Lines 144-150: the first transfer to the sender made in the Puzzle token
\* (0 when there is none).
PuzzleTransfer(transfers, sender) ==
    LET hits == { i \in DOMAIN transfers :
                    /\ Get(transfers[i], "address", NoneStr) = sender
                    /\ Or(Get(transfers[i], "asset", NoneStr), WAVES_ID) = PUZZLE_TOKEN_ID }
    IN  IF hits = {} THEN 0 ELSE CHOOSE i \in hits : \A j \in hits : i <= j

TransferAmount(transfers, place) ==
    IF place = 0 THEN Returned(Decimal(0))
    ELSE IF Get(transfers[place], "amount", Number(0)) = None THEN Raised
    ELSE Returned(NormalizeAmount(PUZZLE_TOKEN_ID,
                                  Get(transfers[place], "amount", Number(0)).int))

\* Lines 127-150: the amount, by event type.
StakingAmount(invoke_data, t, event_type) ==
    IF event_type = "stake" THEN StakeAmount(Get(invoke_data, "payment", <<>>))
    ELSE IF event_type \in { "unstake", "claim", "compound" }
    THEN TransferAmount(
             Get(Get(invoke_data, "stateChanges", EmptyDict), "transfers", <<>>),
             PuzzleTransfer(Get(Get(invoke_data, "stateChanges", EmptyDict), "transfers", <<>>),
                            t["sender"]))
    ELSE Returned(Decimal(0))

\* Lines 152-158: the details dict.
StakingDetails(amount) ==
    IF amount.raised THEN Raised
    ELSE Returned([amount |-> amount.value,
                   amount_usd |-> CalculateUsdValue(PUZZLE_TOKEN_ID, amount.value)])

\* _parse_staking_details, with its except (lines 160-162).
ParseStakingDetails(invoke_data, t, event_type) ==
    Caught(StakingDetails(StakingAmount(invoke_data, t, event_type)))

\* WavesTransaction.timestamp_dt and datetime.fromtimestamp(ms / 1000).
FromTimestampMs(ms) == [epoch_ms |-> ms]

\* Lines 89-101: the event.  The id is the f-string of its three parts.
StakingEventData(t, event_type, staking_details) ==
    [id |-> <<t["id"], event_type, staking_details["amount"]>>,
     transaction_id |-> t["id"],
     height |-> t["height"],
     timestamp |-> FromTimestampMs(t["timestamp"]),
     staker_address |-> t["sender"],
     event_type |-> event_type,
     amount |-> staking_details["amount"],
     amount_usd |-> staking_details["amount_usd"]]

StakingEventOfDetails(t, event_type, parsed) ==
    IF parsed.value = None THEN Returned(None)
    ELSE Returned(StakingEventData(t, event_type, parsed.value))

\* Lines 77-101, once the function name is known to be a staking function.
ExtractOfEventType(t, invoke_data, event_type) ==
    IF event_type = NoneStr THEN Returned(None)
    ELSE StakingEventOfDetails(t, event_type,
                               ParseStakingDetails(invoke_data, t, event_type))

\* Lines 65-101, for raw data that is a dict.
ExtractStakingFromInvoke(t, invoke_data, d_app, function_name) ==
    IF ~Truthy(d_app) THEN Returned(None)
    ELSE IF ~Truthy(function_name) \/ ~IsStakingFunction(function_name) THEN Returned(None)
    ELSE ExtractOfEventType(t, invoke_data, DetermineEventType(function_name))

\* _extract_staking_data: nothing in the body raises past the inner except,
\* so the outer one (lines 103-107) has nothing to catch.
ExtractStakingData(t) ==
    IF ~Has(t, "raw_data") THEN Returned(None)
    ELSE Caught(ExtractStakingFromInvoke(t, t["raw_data"],
                                         Get(t["raw_data"], "dApp", NoneStr),
                                         ExtractFunctionFromInvoke(t["raw_data"])))

\* A data entry key is held as its parts between underscores: "_staked" is
\* in the key when a part after the first starts with "staked".
StakedParts == { "staked", "stakedAmount" }
HoldsStaked(key) == \E i \in 2..Len(key) : key[i] \in StakedParts

\* A plausible slip: the id is built as that of the invocation-based events.
StakeUpdateEventIdOfAmount(tx, entry) ==
    [id |-> <<tx["id"], "stake_update",
              DecimalDivide(Decimal(entry["value"].int), Decimal(Pow10(8)))>>,
     transaction_id |-> tx["id"],
     height |-> tx["height"],
     timestamp |-> FromTimestampMs(tx["timestamp"]),
     staker_address |-> entry["key"][1],
     event_type |-> "stake_update",
     amount |-> DecimalDivide(Decimal(entry["value"].int), Decimal(Pow10(8))),
     amount_usd |-> None]

\* Lines 188-205: the stake_update event of one data entry.
StakeUpdateEvent(tx, entry) ==
    [id |-> <<tx["id"], "stake_update", entry["key"][1], entry["value"].int>>,
     transaction_id |-> tx["id"],
     height |-> tx["height"],
     timestamp |-> FromTimestampMs(tx["timestamp"]),
     staker_address |-> entry["key"][1],
     event_type |-> "stake_update",
     amount |-> DecimalDivide(Decimal(entry["value"].int), Decimal(Pow10(8))),
     amount_usd |-> None]

\* The first entry whose comparison value > 0 raises TypeError (a null
\* value under a key that holds "_staked"), 0 when there is none.
FirstFailingEntry(data_entries) ==
    LET failing == { i \in DOMAIN data_entries :
                       /\ HoldsStaked(Get(data_entries[i], "key", <<"">>))
                       /\ Get(data_entries[i], "value", Number(0)) = None }
    IN  IF failing = {} THEN Len(data_entries) + 1
        ELSE CHOOSE i \in failing : \A j \in failing : i <= j

RECURSIVE StakeUpdates(_, _, _)
StakeUpdates(tx, data_entries, n) ==
    IF n = 0 THEN <<>>
    ELSE IF /\ HoldsStaked(Get(data_entries[n], "key", <<"">>))
            /\ Get(data_entries[n], "value", Number(0)).int > 0
         THEN Append(StakeUpdates(tx, data_entries, n - 1), StakeUpdateEvent(tx, data_entries[n]))
         ELSE StakeUpdates(tx, data_entries, n - 1)

\* _extract_staking_from_data_entries: the events appended before the first
\* entry that raises, if one does (the except of lines 207-212).
ExtractStakingFromDataEntries(tx) ==
    StakeUpdates(tx, Get(Get(tx, "stateChanges", EmptyDict), "data", <<>>),
                 FirstFailingEntry(Get(Get(tx, "stateChanges", EmptyDict), "data", <<>>)) - 1)

\* Lines 237-239: the event, if there is one.
InvocationEvents(extracted) ==
    IF extracted.value # None THEN << extracted.value >> ELSE <<>>

\* Lines 235-246 for one transaction.
StakingEventsOf(t) ==
    InvocationEvents(ExtractStakingData(t))
    \o (IF Has(t, "raw_data") THEN ExtractStakingFromDataEntries(t["raw_data"]) ELSE <<>>)

\* StakingTransformer.transform_transactions.
StakingTransformTransactions(txs) ==
    Returned(Flatten([i \in DOMAIN txs |-> StakingEventsOf(txs[i])]))

\* The function names of the invocations given: those of STAKING_FUNCTIONS,
\* those of the table of _determine_event_type, and a swap.
InvokedFunctions == STAKING_FUNCTIONS \cup (DOMAIN FunctionMappingTable) \cup { "swap" }

StakingPayments == { "absent", "puzzle", "waves", "null_amount" }

StakingPaymentOf(choice) ==
    CASE choice = "puzzle" -> << [assetId |-> PUZZLE_TOKEN_ID, amount |-> Number(150000000)] >>
      [] choice = "waves" ->
           << [assetId |-> NoneStr, amount |-> Number(100000000)],
              [assetId |-> PUZZLE_TOKEN_ID, amount |-> Number(500000000)] >>
      [] choice = "null_amount" -> << [assetId |-> PUZZLE_TOKEN_ID, amount |-> None] >>

StakingTransfers == { "absent", "puzzle", "usdn_puzzle", "other", "null_amount" }

StakingTransfersOf(choice) ==
    CASE choice = "puzzle" ->
           << [address |-> UserAddress, asset |-> PUZZLE_TOKEN_ID,
               amount |-> Number(2000000000)] >>
      [] choice = "usdn_puzzle" ->
           << [address |-> OtherAddress, asset |-> PUZZLE_TOKEN_ID, amount |-> Number(5)],
              [address |-> UserAddress, asset |-> USDN_ID, amount |-> Number(2000000)],
              [address |-> UserAddress, asset |-> PUZZLE_TOKEN_ID, amount |-> Number(7)] >>
      [] choice = "other" ->
           << [address |-> OtherAddress, asset |-> PUZZLE_TOKEN_ID, amount |-> Number(7)] >>
      [] choice = "null_amount" ->
           << [address |-> UserAddress, asset |-> PUZZLE_TOKEN_ID, amount |-> None] >>

StakingData == { "absent", "staked", "zero", "null_then_staked" }

StakingDataOf(choice) ==
    CASE choice = "staked" ->
           << [key |-> <<"total", "fees">>, value |-> Number(5)],
              [key |-> <<UserAddress, "staked">>, value |-> Number(1200000000)],
              [key |-> <<OtherAddress, "stakedAmount">>, value |-> Number(300000000)] >>
      [] choice = "zero" -> << [key |-> <<UserAddress, "staked">>, value |-> Number(0)] >>
      [] choice = "null_then_staked" ->
           << [key |-> <<UserAddress, "stakedAmount">>, value |-> None],
              [key |-> <<OtherAddress, "staked">>, value |-> Number(100000000)] >>

StateChangesOf(out, data) ==
    (IF out = "absent" THEN EmptyDict ELSE [transfers |-> StakingTransfersOf(out)])
    @@ (IF data = "absent" THEN EmptyDict ELSE [data |-> StakingDataOf(data)])

\* An invocation of the staking contract as the extractor yields it.
StakingInvocation(n, d_app, function, pay, out, data) ==
    LET node == Update(Leaf(<<d_app, function>>), Envelope(n, 16))
        paid == IF pay = "absent" THEN node ELSE Put(node, "payment", StakingPaymentOf(pay))
    IN  IF out = "absent" /\ data = "absent" THEN paid
        ELSE Put(paid, "stateChanges", StateChangesOf(out, data))

StakingShape(function, pay, out, data) ==
    [function |-> function, pay |-> pay, out |-> out, data |-> data]

\* Every shape, for a list of one transaction.
StakingShapes ==
    { StakingShape(f, pay, out, data) :
        f \in InvokedFunctions \cup { NoneStr }, pay \in StakingPayments,
        out \in StakingTransfers, data \in StakingData }

\* The shapes longer lists are made of.
CoreStakingShapes ==
    { StakingShape("stake", "puzzle", "absent", "staked"),
      StakingShape("stakeIndex", "puzzle", "absent", "absent"),
      StakingShape("claimRewards", "absent", "puzzle", "absent"),
      StakingShape("unstake", "absent", "puzzle", "absent"),
      StakingShape("swap", "waves", "puzzle", "absent") }

ShapeStakingTx(n, shape) ==
    WavesTransaction(StakingInvocation(n, PUZZLE_STAKING_ADDRESS, shape.function,
                                       shape.pay, shape.out, shape.data))

InitStaking ==
    /\ mode = "staking"
    /\ pc = "call"
    /\ ExtractorIdle
    /\ swaps = <<>>
    /\ asset_id = "" /\ raw_amount = 0 /\ normalized = None
    /\ LaterIdleBut("staking")
    /\ \E n \in 0..MaxTxs :
         \E shapes \in [1..n -> IF n = 1 THEN StakingShapes ELSE CoreStakingShapes] :
           transactions = [i \in 1..n |-> ShapeStakingTx(i, shapes[i])]
    /\ events = <<>>
    /\ stats_timestamp = None /\ stats = None

\* StakingTransformer.transform_transactions is called on the list.
CallStakingTransformTransactions ==
    /\ mode = "staking"
    /\ pc = "call"
    /\ LET outcome == StakingTransformTransactions(transactions)
       IN  /\ events' = outcome.value
           /\ pc' = IF outcome.raised THEN "raised" ELSE "returned"
    /\ UNCHANGED <<mode, extractor_vars, transform_vars, amount_vars, roundtrip_vars,
                   stats_timestamp, stats, usd_vars, pipeline_vars, sink_vars>>

NextStaking == CallStakingTransformTransactions

SpecStaking == InitStaking /\ [][NextStaking]_vars

\* The fixed table of the claim.
EventTypeTable ==
    ("stake" :> "stake") @@ ("unstake" :> "unstake") @@ ("withdraw" :> "unstake")
    @@ ("claim" :> "claim") @@ ("claimRewards" :> "claim") @@ ("compound" :> "compound")
    @@ ("emergencyWithdraw" :> "emergency_withdraw")

\* The staking-function set: the names is_staking_function accepts.
StakingFunctionSet == { f \in InvokedFunctions : IsStakingFunction(f) }

\* The invocation-based events of transaction t among evs.
InvocationEventsFor(t, evs) ==
    { i \in DOMAIN evs : evs[i]["transaction_id"] = t["id"]
                             /\ evs[i]["event_type"] # "stake_update" }

\* An invocation with a function name whose amounts are all numbers.
WellFormedStakingInvocation(t) ==
    /\ Has(t, "raw_data")
    /\ Has(t["raw_data"], "dApp") /\ Has(t["raw_data"], "call")
    /\ Has(t["raw_data"]["call"], "function")
    /\ \A i \in DOMAIN Get(t["raw_data"], "payment", <<>>) :
         t["raw_data"]["payment"][i]["amount"] # None
    /\ \A i \in DOMAIN Get(Get(t["raw_data"], "stateChanges", EmptyDict), "transfers", <<>>) :
         t["raw_data"]["stateChanges"]["transfers"][i]["amount"] # None

\* C13 as stated: an invocation gives an invocation-based event exactly when
\* its function is of the staking-function set, the event type is the one of
\* the fixed table, and every function of the set (stake, unstake and
\* claimRewards among them) has an event type in the table.
C13_EventExactlyForStakingFunctions ==
    (mode = "staking" /\ pc = "returned") =>
        /\ \A i \in DOMAIN transactions :
             WellFormedStakingInvocation(transactions[i]) =>
               LET t == transactions[i]
                   function == t["raw_data"]["call"]["function"]
                   emitted == InvocationEventsFor(t, events)
               IN  /\ (emitted # {}) <=> (function \in StakingFunctionSet)
                   /\ \A e \in emitted :
                        /\ function \in DOMAIN EventTypeTable
                        /\ events[e]["event_type"] = EventTypeTable[function]
        /\ StakingFunctionSet \subseteq DOMAIN EventTypeTable
        /\ { "stake", "unstake", "claimRewards" } \subseteq StakingFunctionSet

\* What the code does: an event exactly for stake, unstake and claim, the
\* names both STAKING_FUNCTIONS and the table hold.
C13_EventForFunctionsOfBothLists ==
    (mode = "staking" /\ pc = "returned") =>
        \A i \in DOMAIN transactions :
          WellFormedStakingInvocation(transactions[i]) =>
            LET t == transactions[i]
                function == t["raw_data"]["call"]["function"]
                emitted == InvocationEventsFor(t, events)
            IN  /\ (emitted # {}) <=> (function \in { "stake", "unstake", "claim" })
                /\ Cardinality(emitted) <= 1
                /\ \A e \in emitted : events[e]["event_type"] = function

\* A stakeIndex invocation paying Puzzle tokens was transformed and gave no
\* event.
C13_Witness ==
    /\ mode = "staking" /\ pc = "returned"
    /\ Len(transactions) = 1
    /\ WellFormedStakingInvocation(transactions[1])
    /\ transactions[1]["raw_data"]["call"]["function"] = "stakeIndex"
    /\ Has(transactions[1]["raw_data"], "payment")
    /\ transactions[1]["raw_data"]["payment"][1]["assetId"] = PUZZLE_TOKEN_ID
    /\ events = <<>>

----------------------------------------------------------------------------
(* SwapTransformer.calculate_usd_values                                    *)

\* Largest number of swap transactions on the transform-then-USD path.
MaxUsdTxs == 2

\* Decimal.__mul__: exact, the coefficients multiplied and the exponents added.
DecimalTimes(a, b) == [coef |-> a.coef * b.coef, exp |-> a.exp + b.exp]

\* x / 2 for a Decimal x: exact, with the exponent of x when the coefficient
\* is even and one digit more when it is odd.
DecimalHalf(a) ==
    IF a.coef % 2 = 0 THEN [coef |-> a.coef \div 2, exp |-> a.exp]
    ELSE [coef |-> a.coef * 5, exp |-> a.exp - 1]

\* The truth value of an Optional[Decimal]: None and zero are false.
DecimalTruthy(v) == v # None /\ v.coef # 0

\* Lines 288-301 for one side of the swap: the amount is divided by
\* 10**decimals and multiplied by the price, if the price is not zero.
UsdAmount(amount, decimals, price) ==
    IF DecimalTruthy(price)
    THEN DecimalTimes(DecimalDivide(amount, Decimal(Pow10(decimals))), price)
    ELSE None

\* Lines 304-311.
VolumeUsd(amount_in_usd, amount_out_usd) ==
    IF DecimalTruthy(amount_in_usd) /\ DecimalTruthy(amount_out_usd)
    THEN DecimalHalf(DecimalAdd(amount_in_usd, amount_out_usd))
    ELSE IF DecimalTruthy(amount_in_usd) THEN amount_in_usd
    ELSE IF DecimalTruthy(amount_out_usd) THEN amount_out_usd
    ELSE None

\* Lines 313-316: the three fields are set on the swap.
WithUsdValues(swap, amount_in_usd, amount_out_usd) ==
    [swap EXCEPT !["amount_in_usd"] = amount_in_usd,
                 !["amount_out_usd"] = amount_out_usd,
                 !["volume_usd"] = VolumeUsd(amount_in_usd, amount_out_usd)]

\* Lines 286-318: the body of the loop.
UpdatedSwap(swap, prices, decimals) ==
    WithUsdValues(swap,
                  UsdAmount(swap["amount_in"], Get(decimals, swap["asset_in_id"], 8),
                            Get(prices, swap["asset_in_id"], Decimal(0))),
                  UsdAmount(swap["amount_out"], Get(decimals, swap["asset_out_id"], 8),
                            Get(prices, swap["asset_out_id"], Decimal(0))))

\* calculate_usd_values.
CalculateUsdValues(swap_list, prices, decimals) ==
    [k \in DOMAIN swap_list |-> UpdatedSwap(swap_list[k], prices, decimals)]

\* The swap invocations of the path: 1 WAVES, a payment without amount (0
\* WAVES) or 2 USDN paid; 2 USDN, 1.5 WAVES or a transfer without amount
\* received.
UsdShapes ==
    { Shape("swap", pay, out) : pay \in { "waves", "bare", "usdn_waves" },
                                out \in { "usdn", "crowd", "bare" } }

PricedAssets == { WAVES_ID, USDN_ID }
Prices == { Decimal(0), Decimal(2), [coef |-> 5, exp |-> -1] }

PriceMaps == UNION { [held -> Prices] : held \in SUBSET PricedAssets }

\* Decimals maps: those of the registry for some of the assets, and one that
\* disagrees with it on USDN.
DecimalsMaps ==
    { EmptyDict, (WAVES_ID :> 8), (WAVES_ID :> 8) @@ (USDN_ID :> 6),
      (WAVES_ID :> 8) @@ (USDN_ID :> 8) }

InitUsd ==
    /\ mode = "usd"
    /\ pc = "call"
    /\ ExtractorIdle
    /\ asset_id = "" /\ raw_amount = 0 /\ normalized = None
    /\ LaterIdleBut("usd")
    /\ \E n \in 0..MaxUsdTxs :
         \E shapes \in [1..n -> UsdShapes] :
           transactions = [i \in 1..n |-> ShapeWavesTx(i, shapes[i])]
    /\ swaps = <<>>
    /\ price_data \in PriceMaps
    /\ asset_decimals \in DecimalsMaps

\* pipeline._transform_data, line 261: the swaps are made of the transactions.
TransformSwaps ==
    /\ mode = "usd"
    /\ pc = "call"
    /\ LET outcome == TransformTransactions(transactions)
       IN  /\ swaps' = outcome.value
           /\ pc' = IF outcome.raised THEN "raised" ELSE "transformed"
    /\ UNCHANGED <<mode, extractor_vars, transactions, amount_vars, later_vars>>

\* calculate_usd_values is called on them.
CallCalculateUsdValues ==
    /\ mode = "usd"
    /\ pc = "transformed"
    /\ swaps' = CalculateUsdValues(swaps, price_data, asset_decimals)
    /\ pc' = "returned"
    /\ UNCHANGED <<mode, extractor_vars, transactions, amount_vars, later_vars>>

NextUsd == TransformSwaps \/ CallCalculateUsdValues

SpecUsd == InitUsd /\ [][NextUsd]_vars

\* A Decimal without the trailing zeros of its coefficient.
RECURSIVE Stripped(_)
Stripped(a) ==
    IF a.coef = 0 THEN Decimal(0)
    ELSE IF a.coef % 10 = 0 THEN Stripped([coef |-> a.coef \div 10, exp |-> a.exp + 1])
    ELSE a

\* Two Optional[Decimal] hold the same number, or are both None.
SameOptional(a, b) ==
    IF a = None \/ b = None THEN a = b ELSE Stripped(a) = Stripped(b)

\* The volume the claim defines.
ClaimedVolume(amount_in_usd, amount_out_usd) ==
    IF amount_in_usd # None /\ amount_out_usd # None
    THEN DecimalHalf(DecimalAdd(amount_in_usd, amount_out_usd))
    ELSE IF amount_in_usd # None THEN amount_in_usd
    ELSE amount_out_usd

\* C14 as stated: a USD amount is None when the price map has no entry for
\* the asset and a number otherwise; volume_usd is the average of the two USD
\* amounts when both are numbers (a zero included), the one that is a number
\* when only one is, and None when neither is.
C14_UsdNoneOnlyForMissingPrice ==
    (mode = "usd" /\ pc = "returned") =>
        \A k \in DOMAIN swaps :
          /\ (swaps[k]["amount_in_usd"] = None) <=> ~Has(price_data, swaps[k]["asset_in_id"])
          /\ (swaps[k]["amount_out_usd"] = None) <=> ~Has(price_data, swaps[k]["asset_out_id"])
          /\ SameOptional(swaps[k]["volume_usd"],
                          ClaimedVolume(swaps[k]["amount_in_usd"], swaps[k]["amount_out_usd"]))

\* A swap paying 0 WAVES for 2 USDN, both priced: amount_in_usd is the number
\* 0, and volume_usd is amount_out_usd, not the average.
C14_Witness ==
    /\ mode = "usd" /\ pc = "returned"
    /\ Len(swaps) = 1
    /\ Has(price_data, WAVES_ID) /\ Has(price_data, USDN_ID)
    /\ swaps[1]["asset_in_id"] = WAVES_ID /\ swaps[1]["asset_out_id"] = USDN_ID
    /\ swaps[1]["amount_in_usd"] # None /\ swaps[1]["amount_in_usd"].coef = 0
    /\ swaps[1]["amount_out_usd"] # None /\ swaps[1]["amount_out_usd"].coef # 0
    /\ swaps[1]["volume_usd"] = swaps[1]["amount_out_usd"]

\* (raw / 10^decimals) * price.
UsdOfRaw(raw, decimals, price) ==
    DecimalTimes(DecimalDivide(Decimal(raw), Decimal(Pow10(decimals))), price)

\* The decimals map gives the asset the decimals of the registry, and the
\* price map a price that is not zero.
AgreedAndPriced(asset) ==
    /\ Has(asset_decimals, asset) /\ asset_decimals[asset] = RegistryDecimals(asset)
    /\ Has(price_data, asset) /\ price_data[asset].coef # 0

\* C15 as stated: for the event made of a raw amount r of an asset with d
\* decimals, when the decimals map gives d and the price map p,
\* amount_in_usd = (r / 10^d) * p, and likewise amount_out_usd: one division
\* by 10^d over the whole path.
C15_RawDividedOnce ==
    (mode = "usd" /\ pc = "returned") =>
        \A k \in DOMAIN swaps :
          LET e == swaps[k]
              t == transactions[EventPlace(e)]
          IN  /\ AgreedAndPriced(e["asset_in_id"]) =>
                    SameOptional(e["amount_in_usd"],
                                 UsdOfRaw(RawOf(FirstPayment(t)),
                                          RegistryDecimals(e["asset_in_id"]),
                                          price_data[e["asset_in_id"]]))
              /\ AgreedAndPriced(e["asset_out_id"]) =>
                    SameOptional(e["amount_out_usd"],
                                 UsdOfRaw(RawOf(FirstTransferToSender(t)),
                                          RegistryDecimals(e["asset_out_id"]),
                                          price_data[e["asset_out_id"]]))

\* 100000000 raw units of WAVES (8 decimals) at a price of 2 with the
\* decimals map giving 8: amount_in_usd is 0.00000002, not 2.
C15_Witness ==
    /\ mode = "usd" /\ pc = "returned"
    /\ Len(swaps) = 1
    /\ RawOf(FirstPayment(transactions[1])) = 100000000
    /\ swaps[1]["asset_in_id"] = WAVES_ID
    /\ Has(asset_decimals, WAVES_ID) /\ asset_decimals[WAVES_ID] = 8
    /\ Has(price_data, WAVES_ID) /\ price_data[WAVES_ID] = Decimal(2)
    /\ swaps[1]["amount_in_usd"] = [coef |-> 2, exp |-> -8]

----------------------------------------------------------------------------
(* Malformed nodes in the walk of _find_relevant_transactions              *)

\* The transaction is a succeeded invocation, wrapped or not.
SucceededInvocation ==
    /\ mode = "relevant" /\ pc = "returned"
    /\ Get(transaction, "applicationStatus", NoneStr) = "succeeded"
    /\ Unwrap(transaction)["type"] = 16

\* The node with this ref is among those returned.
IsReturned(node) == \E k \in DOMAIN found.value : found.value[k]["ref"] = node["ref"]

\* C16 as stated: a node without dApp or call.function, root or nested, is
\* skipped and no exception reaches the caller, and every well-formed relevant
\* node elsewhere in the tree is still returned.
C16_MalformedNodeIsSkipped ==
    SucceededInvocation =>
        LET nodes == PreOrder(Unwrap(transaction))
        IN  /\ ~found.raised
            /\ \A i \in DOMAIN nodes :
                 (WellFormed(nodes[i]) /\ SatisfiesPredicate(nodes[i], vip_functions))
                     => IsReturned(nodes[i])
            /\ \A k \in DOMAIN found.value : WellFormed(found.value[k])

\* A root without dApp over a well-formed node of the target contract: the
\* call raised.
C16_Witness ==
    /\ SucceededInvocation
    /\ transaction["type"] = 16
    /\ ~Has(transaction, "dApp")
    /\ Len(NestedInvokes(transaction)) = 1
    /\ WellFormed(NestedInvokes(transaction)[1])
    /\ NestedInvokes(transaction)[1]["dApp"] = TargetAddress
    /\ found.raised

\* A nested node without dApp over a well-formed node of the target contract:
\* the call returned without that node.
C16_NestedWitness ==
    /\ SucceededInvocation
    /\ transaction["type"] = 16
    /\ WellFormed(transaction)
    /\ Len(PreOrder(transaction)) = 3
    /\ ~Has(PreOrder(transaction)[2], "dApp")
    /\ PreOrder(transaction)[3]["ref"] = <<1, 1>>
    /\ WellFormed(PreOrder(transaction)[3])
    /\ PreOrder(transaction)[3]["dApp"] = TargetAddress
    /\ ~found.raised
    /\ ~IsReturned(PreOrder(transaction)[3])

----------------------------------------------------------------------------
(* PuzzleSwapETL.run_pipeline                                              *)

\* Longest list of addresses given.
MaxAddresses == 3

\* The addresses a caller may give.
AddressChoices == { PUZZLE_STAKING_ADDRESS, TargetAddress }

\* What _process_address_with_batches returns: its summary dict.
AddressSummary(extracted, swap_count, staking_count, batches) ==
    [transactions_extracted |-> extracted, swaps_processed |-> swap_count,
     staking_events_processed |-> staking_count, batches_processed |-> batches]

\* How one call of _process_address_with_batches can end: with a summary, or
\* with an exception (the extractor is not initialised, the node cannot be
\* reached, a transaction cannot be walked, the database refuses a write).
AddressOutcomes ==
    { Returned(AddressSummary(0, 0, 0, 0)), Returned(AddressSummary(3, 2, 1, 1)),
      [raised |-> TRUE, value |-> "RuntimeError"],
      [raised |-> TRUE, value |-> "KeyError"] }

\* Lines 79-86.
NewSummary ==
    [start_time |-> Datetime(0), addresses_processed |-> 0, transactions_extracted |-> 0,
     swaps_processed |-> 0, staking_events_processed |-> 0, errors |-> <<>>]

\* The error message of line 109; its two parts are kept apart.
ErrorMsg(address, e) == [address |-> address, error |-> e]

\* The except branch keeping only the latest error.
AfterAddressLatestErrorOnly(s, address, outcome) ==
    IF outcome.raised
    THEN [s EXCEPT !["errors"] = << ErrorMsg(address, outcome.value) >>]
    ELSE [s EXCEPT !["addresses_processed"] = @ + 1,
                   !["transactions_extracted"] = @ + outcome.value["transactions_extracted"],
                   !["swaps_processed"] = @ + outcome.value["swaps_processed"],
                   !["staking_events_processed"] =
                       @ + outcome.value["staking_events_processed"]]

\* Lines 90-113: the summary after one address.
AfterAddress(s, address, outcome) ==
    IF outcome.raised
    THEN [s EXCEPT !["errors"] = Append(@, ErrorMsg(address, outcome.value))]
    ELSE [s EXCEPT !["addresses_processed"] = @ + 1,
                   !["transactions_extracted"] = @ + outcome.value["transactions_extracted"],
                   !["swaps_processed"] = @ + outcome.value["swaps_processed"],
                   !["staking_events_processed"] =
                       @ + outcome.value["staking_events_processed"]]

RECURSIVE SeqsUpTo(_, _)
SeqsUpTo(set, n) ==
    IF n = 0 THEN { <<>> }
    ELSE SeqsUpTo(set, n - 1) \cup [1..n -> set]

InitPipeline ==
    /\ mode = "pipeline"
    /\ pc = "start"
    /\ ExtractorIdle
    /\ transactions = <<>> /\ swaps = <<>>
    /\ asset_id = "" /\ raw_amount = 0 /\ normalized = None
    /\ LaterIdleBut("pipeline")
    /\ given_addresses \in SeqsUpTo(AddressChoices, MaxAddresses)
    /\ addresses = given_addresses
    /\ address_index = 0
    /\ summary = EmptyDict
    /\ attempted = <<>>

\* Lines 68-86: the default list, the reference data, the new summary.
StartPipeline ==
    /\ mode = "pipeline" /\ pc = "start"
    /\ addresses' = IF addresses = <<>> THEN << PUZZLE_STAKING_ADDRESS >> ELSE addresses
    /\ summary' = NewSummary
    /\ address_index' = 1
    /\ pc' = "loop"
    /\ UNCHANGED <<mode, extractor_vars, transform_vars, amount_vars, roundtrip_vars,
                   staking_vars, usd_vars, sink_vars, given_addresses, attempted>>

\* Line 77 raises: _save_reference_data logs the error and raises it again,
\* and so does run_pipeline (lines 122-124).
SaveReferenceDataFails ==
    /\ mode = "pipeline" /\ pc = "start"
    /\ addresses' = IF addresses = <<>> THEN << PUZZLE_STAKING_ADDRESS >> ELSE addresses
    /\ pc' = "raised"
    /\ UNCHANGED <<mode, extractor_vars, transform_vars, amount_vars, roundtrip_vars,
                   staking_vars, usd_vars, sink_vars, given_addresses, address_index, summary,
                   attempted>>

\* Lines 89-113: one turn of the loop.
ProcessAddress ==
    /\ mode = "pipeline" /\ pc = "loop"
    /\ address_index <= Len(addresses)
    /\ \E outcome \in AddressOutcomes :
         /\ summary' = AfterAddress(summary, addresses[address_index], outcome)
         /\ attempted' = Append(attempted, [address |-> addresses[address_index],
                                            failed |-> outcome.raised])
    /\ address_index' = address_index + 1
    /\ UNCHANGED <<mode, pc, extractor_vars, transform_vars, amount_vars, roundtrip_vars,
                   staking_vars, usd_vars, sink_vars, given_addresses, addresses>>

\* Lines 115-120: the loop is over; the summary is completed and returned.
ReturnSummary ==
    /\ mode = "pipeline" /\ pc = "loop"
    /\ address_index > Len(addresses)
    /\ \E elapsed \in 0..1 :
         summary' = Put(Put(summary, "end_time", Datetime(elapsed)), "duration", elapsed)
    /\ pc' = "returned"
    /\ UNCHANGED <<mode, extractor_vars, transform_vars, amount_vars, roundtrip_vars,
                   staking_vars, usd_vars, sink_vars, given_addresses, addresses, address_index,
                   attempted>>

NextPipeline ==
    \/ StartPipeline
    \/ SaveReferenceDataFails
    \/ ProcessAddress
    \/ ReturnSummary

SpecPipeline == InitPipeline /\ [][NextPipeline]_vars

\* The calls that ended with an exception.
FailedAttempts == { i \in DOMAIN attempted : attempted[i].failed }

\* C17: in run_pipeline over a list of addresses every failure of one
\* address adds exactly one entry to summary["errors"], never makes
\* run_pipeline raise and never keeps a later address from being processed;
\* when run_pipeline returns, addresses_processed + len(errors) is the number
\* of addresses given.
C17_AddressFailureIsContained ==
    (mode = "pipeline") =>
        /\ (pc \in { "loop", "returned" }) =>
              /\ Len(summary["errors"]) = Cardinality(FailedAttempts)
              /\ summary["addresses_processed"] = Len(attempted) - Cardinality(FailedAttempts)
        /\ (pc = "raised") => attempted = <<>>
        /\ (pc = "returned") =>
              /\ [i \in DOMAIN attempted |-> attempted[i].address] = addresses
              /\ given_addresses # <<>> =>
                    summary["addresses_processed"] + Len(summary["errors"])
                        = Len(given_addresses)

\* Three addresses were given, the first failed and the two after it were
\* processed: run_pipeline returned one error and two addresses processed.
C17_Witness ==
    /\ mode = "pipeline" /\ pc = "returned"
    /\ Len(given_addresses) = 3
    /\ attempted[1].failed /\ ~attempted[2].failed /\ ~attempted[3].failed
    /\ Len(summary["errors"]) = 1
    /\ summary["errors"][1]["address"] = given_addresses[1]
    /\ summary["addresses_processed"] = 2

\* ---------------------------------------------------------------------------
\* HTTPClient.get_waves_transactions (utils/http.py, lines 63-93) over
\* settings.waves_node_urls (config/settings.py, lines 49-52).
\* ---------------------------------------------------------------------------

\* The two configured endpoints; the backup may be set to the same node.
NodeUrlChoices == { "https://nodes.wx.network/", "http://38.242.253.187:6869/" }

\* settings.waves_node_urls: the node url, then the backup url.
WavesNodeUrls(waves_node_url, waves_node_backup_url) ==
    << waves_node_url, waves_node_backup_url >>

\* Lines 78-80: the url asked; "?after=" is added for a truthy after only.
WavesUrl(node_url, req) ==
    [node_url |-> node_url,
     path |-> << "transactions", "address", req.address, "limit" >>,
     page_limit |-> req.page_limit,
     after |-> IF req.after # NoneStr /\ req.after # "" THEN req.after ELSE NoneStr]

\* JSON bodies a node can answer with: a list holding one page, an empty list,
\* an object.
JsonList(items) == [kind |-> "list", items |-> items]
JsonDict == [kind |-> "dict", items |-> <<>>]
JsonBodies ==
    { JsonList(<< << "tx1", "tx2" >> >>), JsonList(<< <<>> >>), JsonList(<<>>), JsonDict }

\* get_json (lines 35-61): without a session it raises RuntimeError before any
\* request; otherwise the request fails (status, transport, decoding) or gives
\* the JSON body.
GetJsonOutcomes(open) ==
    IF ~open
    THEN { [raised |-> TRUE, value |-> "RuntimeError"] }
    ELSE { [raised |-> TRUE, value |-> "ClientError"] }
         \cup { Returned(body) : body \in JsonBodies }

\* Line 83: data[0] if isinstance(data, list) and data else [].
FirstPage(data) ==
    IF data.kind = "list" /\ data.items # <<>> THEN data.items[1] ELSE <<>>

AllNodesFailed == [raised |-> TRUE, value |-> "All Waves nodes failed"]

\* A loop body that gives up after the first failure.
AfterGetJsonNoFallback(urls, i, outcome) ==
    IF ~outcome.raised
    THEN [pc |-> "returned", res |-> Returned(FirstPage(outcome.value)), index |-> i]
    ELSE [pc |-> "raised", res |-> AllNodesFailed, index |-> i + 1]

\* Lines 77-93: what follows one call of get_json for endpoint i: the return
\* of line 83, the next endpoint (lines 85-91), or line 93 after the last one.
AfterGetJson(urls, i, outcome) ==
    IF ~outcome.raised
    THEN [pc |-> "returned", res |-> Returned(FirstPage(outcome.value)), index |-> i]
    ELSE IF i < Len(urls)
         THEN [pc |-> "loop", res |-> None, index |-> i + 1]
         ELSE [pc |-> "raised", res |-> AllNodesFailed, index |-> i + 1]

WavesRequests ==
    [address : { TargetAddress }, page_limit : { DefaultLimit, PageLimit },
     after : { NoneStr, "", "tx0" }]

InitHttp ==
    /\ mode = "http"
    /\ pc = "loop"
    /\ ExtractorIdle
    /\ transactions = <<>> /\ swaps = <<>>
    /\ asset_id = "" /\ raw_amount = 0 /\ normalized = None
    /\ LaterIdleBut("http")
    /\ session_open \in BOOLEAN
    /\ \E u1 \in NodeUrlChoices, u2 \in NodeUrlChoices :
         waves_node_urls = WavesNodeUrls(u1, u2)
    /\ waves_request \in WavesRequests
    /\ node_index = 1
    /\ get_json_calls = <<>>
    /\ waves_result = None

\* Lines 76-91: one turn of the loop, with the call of get_json it makes.
TryNode ==
    /\ mode = "http" /\ pc = "loop"
    /\ node_index <= Len(waves_node_urls)
    /\ \E outcome \in GetJsonOutcomes(session_open) :
         /\ get_json_calls' =
                Append(get_json_calls,
                       [url |-> WavesUrl(waves_node_urls[node_index], waves_request),
                        sent |-> session_open,
                        failed |-> outcome.raised,
                        data |-> IF outcome.raised THEN JsonDict ELSE outcome.value])
         /\ pc' = AfterGetJson(waves_node_urls, node_index, outcome).pc
         /\ waves_result' = AfterGetJson(waves_node_urls, node_index, outcome).res
         /\ node_index' = AfterGetJson(waves_node_urls, node_index, outcome).index
    /\ UNCHANGED <<mode, extractor_vars, transform_vars, amount_vars, roundtrip_vars,
                   staking_vars, usd_vars, pipeline_vars, db_vars, extra_vars, session_open,
                   waves_node_urls, waves_request>>

\* The caller asks again (the next page, or a retry), possibly after the
\* client was entered or left.
CallGetWavesTransactions ==
    /\ mode = "http" /\ pc \in { "returned", "raised" }
    /\ session_open' \in BOOLEAN
    /\ waves_request' \in WavesRequests
    /\ node_index' = 1
    /\ get_json_calls' = <<>>
    /\ waves_result' = None
    /\ pc' = "loop"
    /\ UNCHANGED <<mode, extractor_vars, transform_vars, amount_vars, roundtrip_vars,
                   staking_vars, usd_vars, pipeline_vars, db_vars, extra_vars,
                   waves_node_urls>>

NextHttp == TryNode \/ CallGetWavesTransactions

SpecHttp == InitHttp /\ [][NextHttp]_vars

\* C18: get_waves_transactions asks the configured endpoints in their
\* configured order, each one only after the one before it failed; it returns
\* the first page of the first endpoint that answers, asking no later
\* endpoint; and it raises "All Waves nodes failed" only when the call for
\* every configured endpoint has failed.
C18_EndpointFailover ==
    (mode = "http") =>
        /\ \A k \in DOMAIN get_json_calls :
              /\ k <= Len(waves_node_urls)
              /\ get_json_calls[k].url = WavesUrl(waves_node_urls[k], waves_request)
              /\ (k < Len(get_json_calls)) => get_json_calls[k].failed
        /\ (pc = "loop") =>
              /\ node_index = Len(get_json_calls) + 1
              /\ \A k \in DOMAIN get_json_calls : get_json_calls[k].failed
        /\ (pc = "returned") =>
              /\ get_json_calls # <<>>
              /\ ~get_json_calls[Len(get_json_calls)].failed
              /\ waves_result =
                     Returned(FirstPage(get_json_calls[Len(get_json_calls)].data))
        /\ (pc = "raised") =>
              /\ waves_result = AllNodesFailed
              /\ Len(get_json_calls) = Len(waves_node_urls)
              /\ \A k \in DOMAIN get_json_calls : get_json_calls[k].failed

\* The first endpoint failed and the backup answered with a page.
C18_Witness ==
    /\ mode = "http" /\ pc = "returned"
    /\ Len(get_json_calls) = 2
    /\ get_json_calls[1].failed /\ get_json_calls[1].sent
    /\ get_json_calls[1].url.node_url # get_json_calls[2].url.node_url
    /\ waves_result = Returned(<< "tx1", "tx2" >>)

\* ---------------------------------------------------------------------------
\* DatabaseLoader.save_transactions / save_swaps / save_staking_events
\* (loaders/database.py, lines 34-165), mark_transactions_processed (lines
\* 353-378) and PuzzleSwapETL._load_data (pipeline.py, lines 296-342), over
\* the tables of database/models_stg.py and database/models_ods.py.
\* ---------------------------------------------------------------------------

\* Longest list of each kind in a batch.
MaxRecords == 1
\* Most calls of _load_data on one batch.
MaxLoads == 2

\* A raw transaction dict as the sink receives it.
DbTx(id, height, fee) ==
    [k \in { "id", "height", "timestamp", "sender", "type", "fee" } |->
        CASE k = "id" -> id
          [] k = "height" -> height
          [] k = "timestamp" -> 1000 * height
          [] k = "sender" -> UserAddress
          [] k = "type" -> 16
          [] k = "fee" -> fee]

\* d without key k.
Without(d, k) == [x \in (DOMAIN d) \ { k } |-> d[x]]

\* Lines 49-63: the values of the insert into stg.transactions; a missing
\* id, height, timestamp, sender or type is a KeyError.
StgTransactionRow(tx_data) ==
    IF ~({ "id", "height", "timestamp", "sender", "type" } \subseteq DOMAIN tx_data)
    THEN Raised
    ELSE Returned(
           [id |-> tx_data["id"],
            height |-> tx_data["height"],
            timestamp |-> FromTimestampMs(tx_data["timestamp"]),
            sender |-> tx_data["sender"],
            type |-> tx_data["type"],
            fee |-> IF Has(tx_data, "fee") /\ tx_data["fee"] # 0
                    THEN DivideByPow10(Decimal(tx_data["fee"]), 8)
                    ELSE None,
            application_status |-> Get(tx_data, "applicationStatus", NoneStr),
            raw_data |-> tx_data,
            processed |-> FALSE])

\* Lines 90-109: the values of the insert into ods.swaps.  The columns
\* amount_in_raw, amount_out_raw and etl_batch_id are not among them, and the
\* three getattr defaults are None as SwapData has no such fields.
OdsSwapRow(swap_data) ==
    Returned(
      [id |-> swap_data.id,
       transaction_id |-> swap_data.transaction_id,
       height |-> swap_data.height,
       timestamp |-> swap_data.timestamp,
       pool_address |-> swap_data.pool_address,
       trader_address |-> swap_data.trader_address,
       asset_in_id |-> swap_data.asset_in_id,
       asset_out_id |-> swap_data.asset_out_id,
       amount_in |-> swap_data.amount_in,
       amount_out |-> swap_data.amount_out,
       amount_in_raw |-> None,
       amount_out_raw |-> None,
       amount_in_usd |-> swap_data.amount_in_usd,
       amount_out_usd |-> swap_data.amount_out_usd,
       volume_usd |-> swap_data.volume_usd,
       pool_fee |-> swap_data.pool_fee,
       protocol_fee |-> swap_data.protocol_fee,
       owner_fee |-> None,
       swap_fee_rate |-> None,
       price_impact |-> None,
       is_valid |-> TRUE,
       etl_batch_id |-> NoneStr,
       source_system |-> "waves_blockchain"])

\* Lines 136-155: the values of the insert into ods.staking_events;
\* StakingEventData has none of the attributes asked with getattr.
OdsStakingEventRow(event_data) ==
    Returned(
      [id |-> event_data.id,
       transaction_id |-> event_data.transaction_id,
       height |-> event_data.height,
       timestamp |-> event_data.timestamp,
       staker_address |-> event_data.staker_address,
       event_type |-> event_data.event_type,
       amount |-> event_data.amount,
       amount_raw |-> DecimalTimes(event_data.amount, Decimal(100000000)),
       amount_usd |-> event_data.amount_usd,
       total_staked_after |-> None,
       reward_amount |-> None,
       is_valid |-> TRUE,
       etl_batch_id |-> "default_batch",
       source_system |-> "waves_blockchain"])

\* models_ods.py, lines 92-146: the columns of ods.swaps.
OdsSwapColumns ==
    { "id", "transaction_id", "height", "timestamp", "pool_address", "trader_address",
      "asset_in_id", "asset_out_id", "asset_in_symbol", "asset_out_symbol", "amount_in",
      "amount_out", "amount_in_raw", "amount_out_raw", "amount_in_usd", "amount_out_usd",
      "volume_usd", "pool_fee", "protocol_fee", "price_impact", "exchange_rate",
      "is_valid", "validation_errors", "etl_batch_id", "source_system", "created_at",
      "updated_at" }

\* models_ods.py, lines 106-113 and 133: columns of ods.swaps declared
\* nullable=False with no default, for which a row may hold no value.
OdsSwapNotNullViolated(row) ==
    row.amount_in_raw = None \/ row.amount_out_raw = None \/ row.etl_batch_id = NoneStr

\* The statement of lines 90-111 is refused: it names columns the table does
\* not have (owner_fee, swap_fee_rate), and it leaves required columns null.
OdsSwapRefused(row) ==
    \/ \E c \in { "owner_fee", "swap_fee_rate", "price_impact" } : c \notin OdsSwapColumns
    \/ OdsSwapNotNullViolated(row)

\* models_ods.py, lines 170-173 and 185: the same for ods.staking_events.
OdsStakingEventNotNullViolated(row) ==
    row.amount = None \/ row.amount_raw = None \/ row.etl_batch_id = NoneStr

\* models_stg.py, lines 42-49: every required column of stg.transactions is
\* given a value by line 50-62 once the keys exist.
StgTransactionNotNullViolated(row) == FALSE

\* insert(...) that replaces the row on a conflict.
InsertOrReplace(table, row) == Put(table, row.id, row)

\* insert(...).on_conflict_do_nothing(index_elements=["id"]), lines 64, 110
\* and 156: a row whose id is in the table is left as it is.
InsertOrIgnore(table, row) ==
    IF row.id \in DOMAIN table THEN table ELSE Put(table, row.id, row)

\* The inserts of one session, in the order of the list.
RECURSIVE InsertAll(_, _, _)
InsertAll(table, rows, i) ==
    IF i > Len(rows) THEN table
    ELSE InsertAll(InsertOrIgnore(table, rows[i].value), rows, i + 1)

\* One session (lines 46-67, 87-113, 133-159): the values are built and the
\* statements executed one by one, and the commit of the last line makes them
\* lasting.  An exception on the way (a KeyError building the values, an
\* IntegrityError for a null in a required column) leaves the block of
\* get_session, which rolls the session back (connection.py, lines 37-44).
SaveRows(table, rows, violated) ==
    IF \E i \in DOMAIN rows : rows[i].raised \/ violated[i]
    THEN [table |-> table, raised |-> TRUE]
    ELSE [table |-> InsertAll(table, rows, 1), raised |-> FALSE]

SaveTransactions(table, tx_list) ==
    SaveRows(table,
             [i \in DOMAIN tx_list |-> StgTransactionRow(tx_list[i])],
             [i \in DOMAIN tx_list |->
                 ~StgTransactionRow(tx_list[i]).raised
                 /\ StgTransactionNotNullViolated(StgTransactionRow(tx_list[i]).value)])

SaveSwaps(table, swap_list) ==
    SaveRows(table,
             [i \in DOMAIN swap_list |-> OdsSwapRow(swap_list[i])],
             [i \in DOMAIN swap_list |->
                 OdsSwapRefused(OdsSwapRow(swap_list[i]).value)])

SaveStakingEvents(table, event_list) ==
    SaveRows(table,
             [i \in DOMAIN event_list |-> OdsStakingEventRow(event_list[i])],
             [i \in DOMAIN event_list |->
                 OdsStakingEventNotNullViolated(OdsStakingEventRow(event_list[i]).value)])

\* Lines 366-372: update ... where id in transaction_ids, processed = True.
MarkTransactionsProcessed(table, transaction_ids) ==
    [id \in DOMAIN table |->
        IF id \in transaction_ids THEN [table[id] EXCEPT !.processed = TRUE]
        ELSE table[id]]

\* The three tables.
Tables(stg, swp, stk) == [stg_rows |-> stg, swap_rows |-> swp, staking_rows |-> stk]
EmptyTables == Tables(EmptyDict, EmptyDict, EmptyDict)

NotRaised(t) == [tables |-> t, raised |-> FALSE]

\* The steps of _load_data, lines 317-332, each on the tables left by the one
\* before.
LoadStep(n, t, b) ==
    CASE n = 1 ->
           IF b.transactions = <<>> THEN NotRaised(t)
           ELSE [tables |-> [t EXCEPT !.stg_rows =
                                SaveTransactions(t.stg_rows, b.transactions).table],
                 raised |-> SaveTransactions(t.stg_rows, b.transactions).raised]
      [] n = 2 ->
           IF b.swaps = <<>> THEN NotRaised(t)
           ELSE [tables |-> [t EXCEPT !.swap_rows =
                                SaveSwaps(t.swap_rows, b.swaps).table],
                 raised |-> SaveSwaps(t.swap_rows, b.swaps).raised]
      [] n = 3 ->
           IF b.staking_events = <<>> THEN NotRaised(t)
           ELSE [tables |-> [t EXCEPT !.staking_rows =
                                SaveStakingEvents(t.staking_rows, b.staking_events).table],
                 raised |-> SaveStakingEvents(t.staking_rows, b.staking_events).raised]
      [] n = 4 ->
           IF b.transactions = <<>> THEN NotRaised(t)
           ELSE NotRaised([t EXCEPT !.stg_rows =
                             MarkTransactionsProcessed(
                                 t.stg_rows,
                                 { b.transactions[i]["id"] : i \in DOMAIN b.transactions })])

\* The first k steps of _load_data; an exception ends the call (lines 340-342).
RECURSIVE LoadSteps(_, _, _, _)
LoadSteps(n, k, r, b) ==
    IF n > k \/ r.raised THEN r
    ELSE LoadSteps(n + 1, k, LoadStep(n, r.tables, b), b)

\* _load_data as far as the three tables go (lines 317-332).
LoadData(t, b) == LoadSteps(1, 4, NotRaised(t), b)

\* _load_data cut short after k of its steps: the process dies, or the
\* database is lost, between two committed sessions.
LoadDataUpTo(k, t, b) == LoadSteps(1, k, NotRaised(t), b)

\* Records the sink is given.
DbTxChoices ==
    { DbTx("tx1", 100, 500000), DbTx("tx1", 101, 0), DbTx("tx2", 100, 900000),
      Without(DbTx("tx3", 102, 500000), "sender") }

DbSwapDetails(amount_in) ==
    [k \in { "asset_in_id", "asset_out_id", "amount_in", "amount_out", "amount_in_usd",
             "amount_out_usd", "volume_usd", "pool_fee", "protocol_fee" } |->
        CASE k = "asset_in_id" -> "WAVES"
          [] k = "asset_out_id" -> "PUZZLE"
          [] k = "amount_in" -> amount_in
          [] k = "amount_out" -> Decimal(2)
          [] OTHER -> None]

DbSwapChoices ==
    { SwapData(DbTx("tx1", 100, 500000), TargetAddress, DbSwapDetails(Decimal(1))),
      SwapData(DbTx("tx2", 100, 900000), TargetAddress, DbSwapDetails(Decimal(3))) }

DbEventDetails(amount) ==
    [k \in { "amount", "amount_usd" } |-> IF k = "amount" THEN amount ELSE None]

DbEventChoices ==
    { StakingEventData(DbTx("tx1", 100, 500000), "stake",
                       DbEventDetails([coef |-> 15, exp |-> -1])),
      StakingEventData(DbTx("tx1", 101, 0), "stake",
                       DbEventDetails([coef |-> 15, exp |-> -1])),
      StakingEventData(DbTx("tx2", 100, 900000), "unstake", DbEventDetails(Decimal(2))) }

Batch(tx_list, swap_list, event_list) ==
    [transactions |-> tx_list, swaps |-> swap_list, staking_events |-> event_list]

Batches ==
    { Batch(tx_list, swap_list, event_list) :
        tx_list \in SeqsUpTo(DbTxChoices, MaxRecords),
        swap_list \in SeqsUpTo(DbSwapChoices, MaxRecords),
        event_list \in SeqsUpTo(DbEventChoices, MaxRecords) }

\* What earlier runs of the pipeline loaded.
EarlierBatches ==
    { Batch(<<>>, <<>>, <<>>),
      Batch(<< DbTx("tx1", 101, 0) >>, <<>>,
            << StakingEventData(DbTx("tx1", 101, 0), "stake",
                                DbEventDetails([coef |-> 15, exp |-> -1])) >>),
      Batch(<< DbTx("tx2", 100, 900000) >>, <<>>, <<>>) }

InitDb ==
    /\ mode = "db"
    /\ pc = "idle"
    /\ ExtractorIdle
    /\ transactions = <<>> /\ swaps = <<>>
    /\ asset_id = "" /\ raw_amount = 0 /\ normalized = None
    /\ LaterIdleBut("db")
    /\ \E earlier \in EarlierBatches :
         /\ stg_transactions = LoadData(EmptyTables, earlier).tables.stg_rows
         /\ ods_swaps = LoadData(EmptyTables, earlier).tables.swap_rows
         /\ ods_staking_events = LoadData(EmptyTables, earlier).tables.staking_rows
    /\ load_batch \in Batches
    /\ tables_before = Tables(stg_transactions, ods_swaps, ods_staking_events)
    /\ load_outcomes = <<>>

\* _load_data runs to its end: the three saves, the marking, and the
\* aggregation of lines 335-336, which writes other tables and may fail.
CallLoadData ==
    /\ mode = "db"
    /\ Len(load_outcomes) < MaxLoads
    /\ stg_transactions' =
           LoadData(Tables(stg_transactions, ods_swaps, ods_staking_events),
                    load_batch).tables.stg_rows
    /\ ods_swaps' =
           LoadData(Tables(stg_transactions, ods_swaps, ods_staking_events),
                    load_batch).tables.swap_rows
    /\ ods_staking_events' =
           LoadData(Tables(stg_transactions, ods_swaps, ods_staking_events),
                    load_batch).tables.staking_rows
    /\ \E aggregation_fails \in BOOLEAN :
         load_outcomes' =
             Append(load_outcomes,
                    IF LoadData(Tables(stg_transactions, ods_swaps, ods_staking_events),
                                load_batch).raised
                       \/ (aggregation_fails
                           /\ (load_batch.swaps # <<>> \/ load_batch.staking_events # <<>>))
                    THEN "raised" ELSE "returned")
    /\ UNCHANGED <<mode, pc, extractor_vars, transform_vars, amount_vars, roundtrip_vars,
                   staking_vars, usd_vars, pipeline_vars, http_vars, extra_vars, load_batch,
                   tables_before>>

\* _load_data is cut short after k steps and never reports.
LoadDataInterrupted ==
    /\ mode = "db"
    /\ Len(load_outcomes) < MaxLoads
    /\ \E k \in 0..3 :
         /\ stg_transactions' =
                LoadDataUpTo(k, Tables(stg_transactions, ods_swaps, ods_staking_events),
                             load_batch).tables.stg_rows
         /\ ods_swaps' =
                LoadDataUpTo(k, Tables(stg_transactions, ods_swaps, ods_staking_events),
                             load_batch).tables.swap_rows
         /\ ods_staking_events' =
                LoadDataUpTo(k, Tables(stg_transactions, ods_swaps, ods_staking_events),
                             load_batch).tables.staking_rows
    /\ load_outcomes' = Append(load_outcomes, "interrupted")
    /\ UNCHANGED <<mode, pc, extractor_vars, transform_vars, amount_vars, roundtrip_vars,
                   staking_vars, usd_vars, pipeline_vars, http_vars, extra_vars, load_batch,
                   tables_before>>

NextDb == CallLoadData \/ LoadDataInterrupted

SpecDb == InitDb /\ [][NextDb]_vars

\* The ids of the records of a batch.
BatchTxIds(b) ==
    { b.transactions[i]["id"] :
        i \in { j \in DOMAIN b.transactions : Has(b.transactions[j], "id") } }
BatchSwapIds(b) == { b.swaps[i].id : i \in DOMAIN b.swaps }
BatchEventIds(b) == { b.staking_events[i].id : i \in DOMAIN b.staking_events }

\* Some call of _load_data on the batch ran to its end.
LoadedOnce == \E i \in DOMAIN load_outcomes : load_outcomes[i] # "interrupted"

Drained == { i \in 0..(result.file_count - 1) : i > file_index }

\* C20: when the loop of load_transactions_from_files turns to the next file,
\* every file it has read and appended is gone already, and after a drain in
\* which every read succeeded none of the files 0..file_count-1 exists.
C20_FileDeletedOnceDrained ==
    (mode = "fetch" /\ pc \in { "load", "done" }) =>
        /\ \A i \in Drained : Has(files, i) => i \in read_failures
        /\ (pc = "done" /\ read_failures = {}) =>
              \A i \in 0..(result.file_count - 1) : ~Has(files, i)

\* Two files were written; the newer one has been read, appended and removed
\* while the older one is still waiting to be opened.
C20_Witness ==
    /\ mode = "fetch" /\ pc = "load"
    /\ result.file_count = 2
    /\ file_index = 0
    /\ read_failures = {}
    /\ loaded # <<>>
    /\ ~Has(files, 1)
    /\ Has(files, 0)

\* ---------------------------------------------------------------------------
\* load_transactions_from_files when a file cannot be read (lines 343-366).
\* ---------------------------------------------------------------------------

\* One turn of the drain loop.
DrainTurn == mode = "fetch" /\ pc = "load" /\ file_index >= 0

\* C21: a turn of the drain loop whose file cannot be opened, read or parsed
\* adds nothing to the list and raises nothing; every other turn appends the
\* reversed list of its file; the turns go from the highest index down; and
\* the drain ends by returning the list.
C21_FailedReadDropsOnlyThatFile ==
    /\ []((mode = "fetch" /\ pc \in { "load", "done" }) => error = "")
    /\ [][DrainTurn =>
            /\ pc' = "load"
            /\ file_index' = file_index - 1
            /\ IF file_index \in read_failures'
               THEN loaded' = loaded
               ELSE loaded' = loaded \o Reverse(files[file_index])]_vars
    /\ [][(mode = "fetch" /\ pc = "load" /\ file_index < 0) =>
            (pc' = "done" /\ loaded' = loaded)]_vars

\* Of three files the middle one could not be read; the records of the other
\* two were returned.
C21_Witness ==
    /\ mode = "fetch" /\ pc = "done"
    /\ result.file_count = 3
    /\ read_failures = { 1 }
    /\ Len(loaded) >= 2
    /\ loaded[1]["id"] # loaded[Len(loaded)]["id"]

\* ---------------------------------------------------------------------------
\* fetch_all_transactions against a source that answers every request
\* (lines 235-296).
\* ---------------------------------------------------------------------------

\* The extraction when no request fails.
NextServed ==
    \/ FetchPage
    \/ ProcessBatch
    \/ EndBatch
    \/ Flush
    \/ StartLoad
    \/ LoadFile
    \/ LoadFileFails
    \/ LoadReturns

\* Longest history of the runs followed to their end.
MaxServedHistory == 4

\* The transactions of these histories: one or two relevant invocations, or
\* an invocation that makes the walk raise.
ServedShapes == { "leaf", "nested", "malformed" }

InitServed ==
    /\ mode = "fetch"
    /\ limit = PageLimit
    /\ threshold \in limit..MaxThreshold
    /\ \E n \in 0..MaxServedHistory : history \in [1..n -> ServedShapes]
    /\ last_processed_id \in {""} \cup { ToString(n) : n \in 1..Len(history) }
    /\ files = EmptyDict
    /\ FetchStart
    /\ DownstreamIdle

\* The coroutine goes on whenever the step it waits for can be taken: the
\* node answers, and the steps between two awaits run to their end.
SpecServed ==
    /\ InitServed
    /\ [][NextServed]_vars
    /\ WF_vars(FetchPage)
    /\ WF_vars(ProcessBatch)
    /\ WF_vars(EndBatch)
    /\ WF_vars(Flush)

\* fetch_all_transactions has returned (the caller may be draining).
FetchReturned == pc \in { "returned", "load", "done" }

----------------------------------------------------------------------------
(* The fields of the nested nodes _find_relevant_transactions returns      *)

\* The invocation the walk starts from, as the node API gave it.
TopLevel == IF transaction["type"] = 18 THEN transaction["payload"] ELSE transaction

\* The node of the given tree the path of child indexes leads to.
RECURSIVE NodeAt(_, _)
NodeAt(node, path) ==
    IF path = <<>> THEN node ELSE NodeAt(NestedInvokes(node)[Head(path)], Tail(path))

Front(s) == SubSeq(s, 1, Len(s) - 1)

Carries(node, key, value) == Has(node, key) /\ node[key] = value

\* C23: every nested node of the result, at any depth, carries the dApp of
\* its direct parent as sender, the id, height and timestamp of the top-level
\* transaction, and the invocation type 16.
C23_NestedNodesInherit ==
    (mode = "relevant" /\ pc = "returned") =>
        \A i \in DOMAIN found.value :
            LET node == found.value[i]
            IN  (node["ref"] # <<>>) =>
                    /\ Carries(node, "sender", NodeAt(TopLevel, Front(node["ref"]))["dApp"])
                    /\ Carries(node, "id", transaction["id"])
                    /\ Carries(node, "height", transaction["height"])
                    /\ Carries(node, "timestamp", transaction["timestamp"])
                    /\ Carries(node, "type", 16)

\* A grandchild was returned whose parent is another contract than the root.
C23_Witness ==
    /\ mode = "relevant" /\ pc = "returned"
    /\ transaction["type"] = 16 /\ Carries(transaction, "dApp", TargetAddress)
    /\ \E i \in DOMAIN found.value :
          /\ Len(found.value[i]["ref"]) = 2
          /\ Carries(found.value[i], "sender", OtherAddress)
          /\ Carries(found.value[i], "id", "1")

----------------------------------------------------------------------------
(* Wrapped transactions (type 18)                                          *)

SucceededWrapped ==
    /\ mode = "relevant" /\ pc = "returned"
    /\ Get(transaction, "applicationStatus", NoneStr) = "succeeded"
    /\ transaction["type"] = 18

\* The type-16 transaction with the wrapper's envelope and the payload's
\* invocation.
InvokeCounterpart ==
    WithStatus(Update(transaction["payload"],
                      [id |-> transaction["id"], height |-> transaction["height"],
                       timestamp |-> transaction["timestamp"],
                       sender |-> transaction["sender"], type |-> 16]),
               "succeeded")

\* C24: a succeeded type-18 transaction whose payload is an "invocation" gives
\* what the type-16 transaction with the wrapper's id, timestamp, height,
\* sender and applicationStatus and the payload's invocation gives (root test
\* and nested invokes); any other payload gives the empty list.
C24_WrappedIsUnwrapped ==
    SucceededWrapped =>
        IF transaction["payload"]["type"] = "invocation"
        THEN /\ found = WalkInvocation(InvokeCounterpart, TargetAddress, vip_functions)
             /\ (AllWellFormed(transaction["payload"]) =>
                    /\ ~found.raised
                    /\ Identity(found.value)
                         = Identity(RelevantInPreOrder(transaction["payload"], vip_functions))
                    /\ \A i \in DOMAIN found.value :
                          /\ Carries(found.value[i], "id", transaction["id"])
                          /\ Carries(found.value[i], "height", transaction["height"])
                          /\ Carries(found.value[i], "timestamp", transaction["timestamp"])
                          /\ Carries(found.value[i], "type", 16)
                          /\ (found.value[i]["ref"] = <<>> =>
                                /\ Carries(found.value[i], "sender", transaction["sender"])
                                /\ Carries(found.value[i], "applicationStatus", "succeeded")))
        ELSE found = Returned(<<>>)

\* A wrapped invocation gave its relevant root and a relevant nested node.
C24_Witness ==
    /\ SucceededWrapped /\ transaction["payload"]["type"] = "invocation"
    /\ AllWellFormed(transaction["payload"])
    /\ Len(found.value) >= 2
    /\ found.value[1]["ref"] = <<>>
    /\ found.value[1]["sender"] = UserAddress

\* A wrapped transfer whose payload has a relevant dApp gave nothing.
C24_TransferWitness ==
    /\ SucceededWrapped /\ transaction["payload"]["type"] = "transfer"
    /\ Carries(transaction["payload"], "dApp", TargetAddress)
    /\ found = Returned(<<>>)

----------------------------------------------------------------------------
(* The amounts of the invocation-based staking events                      *)

\* The staking token has 8 decimals: raw units as a decimal number.
PuzzleUnits(raw) == [coef |-> raw, exp |-> -8]

\* The amount the claim gives a stake: that of the first payment when it is
\* in the staking token.
ClaimedStakeAmount(payments) ==
    IF payments # <<>> /\ Get(payments[1], "assetId", NoneStr) = PUZZLE_TOKEN_ID
    THEN PuzzleUnits(payments[1]["amount"].int)
    ELSE Decimal(0)

\* The amount the claim gives an unstake or a claim: that of the first
\* transfer addressed to the sender in the staking token, from entry n on.
RECURSIVE ClaimedTransferAmount(_, _, _)
ClaimedTransferAmount(transfers, sender, n) ==
    IF n > Len(transfers) THEN Decimal(0)
    ELSE IF /\ Get(transfers[n], "address", NoneStr) = sender
            /\ Get(transfers[n], "asset", NoneStr) = PUZZLE_TOKEN_ID
         THEN PuzzleUnits(transfers[n]["amount"].int)
         ELSE ClaimedTransferAmount(transfers, sender, n + 1)

TransfersOfInvocation(t) ==
    Get(Get(t["raw_data"], "stateChanges", EmptyDict), "transfers", <<>>)

\* C25: a stake event's amount is the normalized first payment when that
\* payment is in the PUZZLE token and 0 otherwise, the event being emitted
\* all the same; an unstake or claim event's amount is the normalized amount
\* of the first transfer to the sender in the PUZZLE token, 0 when there is
\* none.
C25_StakingAmounts ==
    (mode = "staking" /\ pc = "returned") =>
        \A i \in DOMAIN transactions :
          WellFormedStakingInvocation(transactions[i]) =>
            LET t == transactions[i]
                function == t["raw_data"]["call"]["function"]
                emitted == InvocationEventsFor(t, events)
            IN  /\ (function = "stake") =>
                     /\ Cardinality(emitted) = 1
                     /\ \A e \in emitted :
                          /\ events[e]["event_type"] = "stake"
                          /\ SameNumber(events[e]["amount"],
                                        ClaimedStakeAmount(Get(t["raw_data"], "payment", <<>>)))
                /\ (function \in { "unstake", "claim" }) =>
                     /\ Cardinality(emitted) = 1
                     /\ \A e \in emitted :
                          /\ events[e]["event_type"] = function
                          /\ SameNumber(events[e]["amount"],
                                        ClaimedTransferAmount(TransfersOfInvocation(t),
                                                              t["sender"], 1))

\* A stake whose first payment is in WAVES and whose second is in PUZZLE gave
\* a stake event of amount 0.
C25_Witness ==
    /\ mode = "staking" /\ pc = "returned"
    /\ Len(transactions) = 1
    /\ WellFormedStakingInvocation(transactions[1])
    /\ transactions[1]["raw_data"]["call"]["function"] = "stake"
    /\ Len(Get(transactions[1]["raw_data"], "payment", <<>>)) = 2
    /\ transactions[1]["raw_data"]["payment"][2]["assetId"] = PUZZLE_TOKEN_ID
    /\ Len(events) >= 1
    /\ events[1]["event_type"] = "stake" /\ events[1]["amount"] = Decimal(0)

\* An unstake whose third transfer is the first to the sender in PUZZLE gave
\* an event of that transfer's amount.
C25_TransferWitness ==
    /\ mode = "staking" /\ pc = "returned"
    /\ Len(transactions) = 1
    /\ WellFormedStakingInvocation(transactions[1])
    /\ transactions[1]["raw_data"]["call"]["function"] = "unstake"
    /\ Len(TransfersOfInvocation(transactions[1])) = 3
    /\ Len(events) >= 1
    /\ events[1]["event_type"] = "unstake"
    /\ SameNumber(events[1]["amount"], PuzzleUnits(7))

----------------------------------------------------------------------------
(* The two extraction paths of the staking transformer                     *)

DataEntriesOf(t) == Get(Get(t["raw_data"], "stateChanges", EmptyDict), "data", <<>>)

\* The data entries the claim gives a stake_update event: the key holds
\* "_staked" and the value is positive.
PositiveStakedEntries(t) ==
    LET Test(entry) == /\ HoldsStaked(Get(entry, "key", <<"">>))
                       /\ Get(entry, "value", Number(0)) # None
                       /\ Get(entry, "value", Number(0)).int > 0
    IN  SelectSeq(DataEntriesOf(t), Test)

EventsOfTransaction(t, evs) ==
    LET Test(e) == e["transaction_id"] = t["id"] IN SelectSeq(evs, Test)

OfInvocation(evs) ==
    LET Test(e) == e["event_type"] # "stake_update" IN SelectSeq(evs, Test)

OfDataEntries(evs) ==
    LET Test(e) == e["event_type"] = "stake_update" IN SelectSeq(evs, Test)

\* The events of one transaction are the invocation-based event, if any,
\* and then one stake_update per entry of `entries`, in order.
BothPaths(t, evs, entries) ==
    /\ evs = OfInvocation(evs) \o OfDataEntries(evs)
    /\ Len(OfInvocation(evs)) <= 1
    /\ WellFormedStakingInvocation(t) =>
         (Len(OfInvocation(evs)) = 1
            <=> t["raw_data"]["call"]["function"] \in { "stake", "unstake", "claim" })
    /\ Len(OfDataEntries(evs)) = Len(entries)
    /\ \A k \in DOMAIN entries :
         k <= Len(OfDataEntries(evs)) =>
            OfDataEntries(evs)[k]["staker_address"] = entries[k]["key"][1]

\* C26 as stated: for each transaction, in input order, the output holds the
\* invocation-based event (if any) followed by one stake_update event for
\* every data entry whose key holds "_staked" and whose value is positive,
\* the staker being the part of the key before the first underscore.
C26_BothPathsEveryEntry ==
    (mode = "staking" /\ pc = "returned") =>
        /\ events = Flatten([i \in DOMAIN transactions |->
                                EventsOfTransaction(transactions[i], events)])
        /\ \A i \in DOMAIN transactions :
             BothPaths(transactions[i], EventsOfTransaction(transactions[i], events),
                       PositiveStakedEntries(transactions[i]))

\* The entries that come before the first one whose comparison raises.
EntriesBeforeFailure(t) ==
    LET Test(entry) == /\ HoldsStaked(Get(entry, "key", <<"">>))
                       /\ Get(entry, "value", Number(0)).int > 0
    IN  SelectSeq(SubSeq(DataEntriesOf(t), 1, FirstFailingEntry(DataEntriesOf(t)) - 1), Test)

\* What the code does: the stake_update events are those of the entries that
\* come before the first entry of the transaction whose value cannot be
\* compared with 0; the invocation-based event is not affected.
C26_EntriesUntilFirstFailure ==
    (mode = "staking" /\ pc = "returned") =>
        /\ events = Flatten([i \in DOMAIN transactions |->
                                EventsOfTransaction(transactions[i], events)])
        /\ \A i \in DOMAIN transactions :
             BothPaths(transactions[i], EventsOfTransaction(transactions[i], events),
                       EntriesBeforeFailure(transactions[i]))

\* A stake whose data holds a deleted (null) "_stakedAmount" entry and then
\* a positive "_staked" entry gave the stake event and no stake_update.
C26_Witness ==
    /\ mode = "staking" /\ pc = "returned"
    /\ Len(transactions) = 1
    /\ WellFormedStakingInvocation(transactions[1])
    /\ transactions[1]["raw_data"]["call"]["function"] = "stake"
    /\ Len(DataEntriesOf(transactions[1])) = 2
    /\ DataEntriesOf(transactions[1])[1]["value"] = None
    /\ Len(PositiveStakedEntries(transactions[1])) = 1
    /\ Len(events) = 1 /\ events[1]["event_type"] = "stake"

\* A swap (no invocation-based event) with two positive staked entries gave
\* the two stake_update events, in the order of the entries.
C26_TwoUpdatesWitness ==
    /\ mode = "staking" /\ pc = "returned"
    /\ Len(transactions) = 1
    /\ transactions[1]["raw_data"]["call"]["function"] = "swap"
    /\ Len(events) = 2
    /\ events[1]["staker_address"] = UserAddress
    /\ events[2]["staker_address"] = OtherAddress

----------------------------------------------------------------------------
(* The ids of the staking events                                           *)

\* The id is made of the transaction id, the event type and the amount.
IdOfAmount(e) ==
    /\ Len(e["id"]) = 3
    /\ e["id"] = <<e["transaction_id"], e["event_type"], e["amount"]>>

\* The id is made of the transaction id, the event type, the staker and the
\* raw value of the data entry (the amount in units of 10^-8).
IdOfStakerAndValue(e) ==
    /\ Len(e["id"]) = 4
    /\ e["id"][1] = e["transaction_id"] /\ e["id"][2] = e["event_type"]
    /\ e["id"][3] = e["staker_address"]
    /\ SameNumber(e["amount"], PuzzleUnits(e["id"][4]))

\* C28 as stated: every event emitted, stake_update included, has the id
\* {transaction_id}_{event_type}_{amount}.
C28_EveryIdOfAmount ==
    (mode = "staking" /\ pc = "returned") =>
        \A i \in DOMAIN events : IdOfAmount(events[i])

\* C28: an invocation-based event has the id
\* {transaction_id}_{event_type}_{amount}; a stake_update event has the id
\* {transaction_id}_stake_update_{staker_address}_{value}, value being the raw
\* value of its data entry.
C28_IdByExtractionPath ==
    (mode = "staking" /\ pc = "returned") =>
        \A i \in DOMAIN events :
            IF events[i]["event_type"] = "stake_update"
            THEN IdOfStakerAndValue(events[i])
            ELSE IdOfAmount(events[i])

\* A stake with positive staked entries gave a stake event and stake_update
\* events.
C28_Witness ==
    /\ mode = "staking" /\ pc = "returned"
    /\ Len(transactions) = 1
    /\ Len(events) = 3
    /\ events[1]["event_type"] = "stake" /\ events[1]["amount"] # Decimal(0)
    /\ events[2]["event_type"] = "stake_update"
    /\ events[2]["id"] = <<"1", "stake_update", UserAddress, 1200000000>>

----------------------------------------------------------------------------
(* The fees of a swap event                                                *)

\* The value of the first data entry of the invocation whose key holds
\* "fee" in any case (None when there is none).
RECURSIVE ClaimedPoolFee(_, _)
ClaimedPoolFee(data_entries, n) ==
    IF n > Len(data_entries) THEN None
    ELSE IF Get(data_entries[n], "key", "") \in FeeKeys
         THEN Decimal(data_entries[n]["value"].int)
         ELSE ClaimedPoolFee(data_entries, n + 1)

\* The amount of the first transfer of the invocation addressed to a
\* protocol-fee collector (None when there is none).
RECURSIVE ClaimedProtocolFee(_, _)
ClaimedProtocolFee(transfers, n) ==
    IF n > Len(transfers) THEN None
    ELSE IF Get(transfers[n], "address", NoneStr) \in ProtocolAddresses
         THEN Decimal(transfers[n]["amount"].int)
         ELSE ClaimedProtocolFee(transfers, n + 1)

StateChangesOfEvent(e) ==
    Get(transactions[EventPlace(e)]["raw_data"], "stateChanges", EmptyDict)

\* C27 as stated: pool_fee of a swap event is the value of the first
\* stateChanges.data entry of its invocation whose key holds "fee",
\* protocol_fee the amount of the first stateChanges.transfers entry addressed
\* to a protocol-fee collector, each None only when there is no such entry.
C27_FeesFromStateChanges ==
    (mode = "swap" /\ pc = "returned") =>
        \A i \in DOMAIN swaps :
            /\ swaps[i]["pool_fee"]
                 = ClaimedPoolFee(Get(StateChangesOfEvent(swaps[i]), "data", <<>>), 1)
            /\ swaps[i]["protocol_fee"]
                 = ClaimedProtocolFee(Get(StateChangesOfEvent(swaps[i]), "transfers", <<>>), 1)

\* What the code does: the helpers are given the stateChanges dict and look
\* for a stateChanges key inside it, which the node never puts there, so
\* both fees are None on every event.
C27_FeesAlwaysNone ==
    (mode = "swap" /\ pc = "returned") =>
        \A i \in DOMAIN swaps :
            swaps[i]["pool_fee"] = None /\ swaps[i]["protocol_fee"] = None

\* A swap whose state changes hold fee entries and transfers to both fee
\* collectors gave an event without fees.
C27_Witness ==
    /\ mode = "swap" /\ pc = "returned"
    /\ Len(transactions) = 1 /\ Len(swaps) = 1
    /\ ClaimedPoolFee(Get(StateChangesOfEvent(swaps[1]), "data", <<>>), 1) = Decimal(25)
    /\ ClaimedProtocolFee(Get(StateChangesOfEvent(swaps[1]), "transfers", <<>>), 1) = Decimal(3)
    /\ swaps[1]["pool_fee"] = None /\ swaps[1]["protocol_fee"] = None

----------------------------------------------------------------------------
(* PuzzleSwapETL._get_price_data and DatabaseLoader.save_price_data        *)

\* Most assets in one response of the aggregator.
MaxPrices == 3

\* A JSON string and a JSON object, as values that can be told from a
\* number and from null.
JsonStr(text) == [str |-> text]
JsonObject(d) == [obj |-> d]

\* The assets of a response, in the order of the response.
PriceAssets == << WAVES_ID, PUZZLE_TOKEN_ID, USDN_ID, USDT_ID >>

\* What the aggregator may give for one asset.
PriceInfoChoices ==
    { JsonStr("1.5"), JsonStr(" 0.25 "), Number(2),
      JsonObject([price |-> JsonStr("0.5")]), JsonObject([price |-> None]),
      JsonObject([usd |-> Number(1)]),
      None, JsonStr(""), JsonStr("  "), JsonStr("null"), JsonStr("abc") }

IsJsonObject(v) == "obj" \in DOMAIN v
IsJsonStr(v) == "str" \in DOMAIN v
IsJsonNumber(v) == "int" \in DOMAIN v

\* Lines 417-420: the price of a dict that has one, the value itself otherwise.
PriceValue(price_info) ==
    IF IsJsonObject(price_info) /\ Has(price_info.obj, "price")
    THEN price_info.obj["price"]
    ELSE price_info

\* str(value) of a JSON value that is not null.
StrOf(v) ==
    IF IsJsonStr(v) THEN v.str
    ELSE IF IsJsonNumber(v) THEN ToString(v.int)
    ELSE "{'usd': 1}"

\* text.strip(), on the texts of the responses.
Strip(text) ==
    CASE text = " 0.25 " -> "0.25"
      [] text = "  " -> ""
      [] OTHER -> text

\* The texts Decimal() accepts, with their values.
DecimalTexts ==
    ("1.5" :> [coef |-> 15, exp |-> -1]) @@ ("0.25" :> [coef |-> 25, exp |-> -2])
    @@ ("2" :> [coef |-> 2, exp |-> 0]) @@ ("0.5" :> [coef |-> 5, exp |-> -1])

\* Decimal(text): decimal.InvalidOperation for a text that is not a number.
DecimalOfText(text) ==
    IF text \in DOMAIN DecimalTexts THEN Returned(DecimalTexts[text]) ELSE Raised

\* Lines 416-447, one turn of the loop: the price kept for the asset, None
\* when the entry is passed over or its conversion raises (the except of
\* line 440 catches everything).
ParsedPrice(price_info) ==
    LET price_value == PriceValue(price_info)
    IN  IF price_value = None THEN None
        ELSE IF Strip(StrOf(price_value)) \in { "", "null", "None" } THEN None
        ELSE IF DecimalOfText(Strip(StrOf(price_value))).raised THEN None
        ELSE DecimalOfText(Strip(StrOf(price_value))).value

\* Lines 431-438: the dict appended to price_data_to_save.
PriceDataToSave(asset, price_decimal) ==
    [asset_id |-> asset, timestamp |-> Datetime(0), price_usd |-> price_decimal,
     source |-> "aggregator_api"]

\* The places of the response whose price was kept.
KeptPlaces(response) ==
    { i \in DOMAIN response : ParsedPrice(response[i].info) # None }

\* Lines 411-447: the prices dict after the loop.
PricesAfterLoop(response) ==
    [a \in { response[i].asset : i \in KeptPlaces(response) } |->
        ParsedPrice(response[CHOOSE i \in KeptPlaces(response) : response[i].asset = a].info)]

\* Lines 411-447: price_data_to_save after the loop, in the order of the
\* response.
RECURSIVE RowsAfterLoop(_, _)
RowsAfterLoop(response, n) ==
    IF n = 0 THEN <<>>
    ELSE IF n \in KeptPlaces(response)
         THEN Append(RowsAfterLoop(response, n - 1),
                     PriceDataToSave(response[n].asset, ParsedPrice(response[n].info)))
         ELSE RowsAfterLoop(response, n - 1)

\* database.py 256-262: the values of the insert; reading a key the dict
\* lacks raises KeyError.
StgPriceDataRow(price_info) ==
    IF ~({ "asset_id", "price_usd", "source", "fetched_at" } \subseteq DOMAIN price_info)
    THEN Raised
    ELSE Returned([asset_id |-> price_info["asset_id"], price_usd |-> price_info["price_usd"],
                   source |-> price_info["source"],
                   raw_response |-> Get(price_info, "raw_response", EmptyDict),
                   fetched_at |-> price_info["fetched_at"]])

\* save_price_data: the rows are inserted in one session, which is rolled
\* back when an insert raises (connection.py 30-44), and the exception is
\* raised again (lines 269-271).
SavePriceData(table, rows) ==
    IF \E i \in DOMAIN rows : StgPriceDataRow(rows[i]).raised
    THEN [raised |-> TRUE, table |-> table]
    ELSE [raised |-> FALSE,
          table |-> table \o [i \in DOMAIN rows |-> StgPriceDataRow(rows[i]).value]]

\* Lines 449-460: the rows are saved when there are some; whatever is raised
\* inside the try gives the empty dict.
AfterLoop(table, prices_kept, rows) ==
    IF rows = <<>> THEN [table |-> table, value |-> prices_kept]
    ELSE IF SavePriceData(table, rows).raised
         THEN [table |-> table, value |-> EmptyDict]
         ELSE [table |-> SavePriceData(table, rows).table, value |-> prices_kept]

\* _get_price_data (the http client is set by the constructor).
GetPriceData(table, response) ==
    IF response.raised THEN [table |-> table, value |-> EmptyDict]
    ELSE AfterLoop(table, PricesAfterLoop(response.value),
                   RowsAfterLoop(response.value, Len(response.value)))

PriceResponses ==
    { <<>> }
    \cup UNION { { [i \in 1..n |-> [asset |-> PriceAssets[i], info |-> infos[i]]] :
                     infos \in [1..n -> PriceInfoChoices] } : n \in 1..MaxPrices }

InitPrices ==
    /\ mode = "prices"
    /\ pc = "call"
    /\ ExtractorIdle
    /\ transactions = <<>> /\ swaps = <<>>
    /\ asset_id = "" /\ raw_amount = 0 /\ normalized = None
    /\ LaterIdleBut("prices")
    /\ \/ price_response = [raised |-> TRUE, value |-> <<>>]
       \/ \E response \in PriceResponses : price_response = Returned(response)
    /\ stg_price_data = <<>>
    /\ price_lookup = None

\* _get_price_data is called.
CallGetPriceData ==
    /\ mode = "prices"
    /\ pc = "call"
    /\ price_lookup' = GetPriceData(stg_price_data, price_response).value
    /\ stg_price_data' = GetPriceData(stg_price_data, price_response).table
    /\ pc' = "returned"
    /\ UNCHANGED <<mode, extractor_vars, transform_vars, amount_vars, roundtrip_vars,
                   staking_vars, usd_vars, pipeline_vars, http_vars, db_vars, batch_vars,
                   price_response>>

NextPrices == CallGetPriceData

SpecPrices == InitPrices /\ [][NextPrices]_vars

\* The price the claim has kept for an entry: the decimal its price string
\* or number stands for, None for a null, empty or unparsable price.
ClaimedPrice(price_info) ==
    LET v == IF IsJsonObject(price_info) /\ "price" \in DOMAIN price_info.obj
             THEN price_info.obj["price"] ELSE price_info
    IN  CASE v = Number(2) -> Decimal(2)
          [] v = JsonStr("1.5") -> [coef |-> 15, exp |-> -1]
          [] v = JsonStr(" 0.25 ") -> [coef |-> 25, exp |-> -2]
          [] v = JsonStr("0.5") -> [coef |-> 5, exp |-> -1]
          [] OTHER -> None

\* C29 as stated: the mapping returned holds an entry for every asset of the
\* response whose price parses as a decimal, and none for the assets whose
\* price is null, empty or unparsable.
C29_ParsablePricesReturned ==
    (mode = "prices" /\ pc = "returned" /\ ~price_response.raised) =>
        /\ DOMAIN price_lookup
             = { price_response.value[i].asset :
                   i \in { j \in DOMAIN price_response.value :
                             ClaimedPrice(price_response.value[j].info) # None } }
        /\ \A i \in DOMAIN price_response.value :
             ClaimedPrice(price_response.value[i].info) # None =>
                price_lookup[price_response.value[i].asset]
                    = ClaimedPrice(price_response.value[i].info)

\* What the loop of lines 415-447 keeps is what the claim says.
C29_LoopKeepsParsablePrices ==
    (mode = "prices" /\ ~price_response.raised) =>
        \A i \in DOMAIN price_response.value :
            ParsedPrice(price_response.value[i].info)
                = ClaimedPrice(price_response.value[i].info)

\* What the code does: the rows handed to save_price_data hold "timestamp"
\* where it reads "fetched_at", so the save raises whenever a price was kept
\* and the outer except returns the empty dict; nothing is ever committed.
C29_AlwaysEmpty ==
    (mode = "prices" /\ pc = "returned") =>
        price_lookup = EmptyDict /\ stg_price_data = <<>>

\* A response with a parsable price, an unparsable one and a parsable one
\* gave the empty dict.
C29_Witness ==
    /\ mode = "prices" /\ pc = "returned" /\ ~price_response.raised
    /\ Len(price_response.value) = 3
    /\ price_response.value[1].info = JsonStr("1.5")
    /\ price_response.value[2].info = JsonStr("abc")
    /\ price_response.value[3].info = JsonObject([price |-> JsonStr("0.5")])
    /\ price_lookup = EmptyDict

----------------------------------------------------------------------------
(* run_pipeline with _process_address_with_batches, page by page           *)

\* Most pages the node holds for one address.
MaxPages == 2

\* What a page of an address comes to: the request for it fails; it holds no
\* relevant transaction; its relevant transactions give no event, a staking
\* event, or a swap.
PageKinds == { "fetch_fails", "irrelevant", "plain", "staking", "swap" }

PageTx(a, k, n) == DbTx("tx" \o ToString(a) \o ToString(k) \o ToString(n), 100 + k, 500000)

\* relevant_txs, swaps and staking_events of page k of address number a, as
\* lines 181-190 leave them.
PageBatch(kind, a, k) ==
    CASE kind = "plain" -> Batch(<< PageTx(a, k, 1) >>, <<>>, <<>>)
      [] kind = "staking" ->
           Batch(<< PageTx(a, k, 1), PageTx(a, k, 2) >>, <<>>,
                 << StakingEventData(PageTx(a, k, 1), "stake",
                                     DbEventDetails([coef |-> 15, exp |-> -1])) >>)
      [] kind = "swap" ->
           Batch(<< PageTx(a, k, 1) >>,
                 << SwapData(PageTx(a, k, 1), TargetAddress, DbSwapDetails(Decimal(1))) >>,
                 <<>>)
      [] OTHER -> Batch(<<>>, <<>>, <<>>)

\* The pages of an address, and whether the last one is a full page (has_more
\* is then still true and one more request is made, which comes back empty).
Plan(kinds, last_full) == [pages |-> kinds, last_full |-> last_full]

Plans == { Plan(kinds, full) : kinds \in SeqsUpTo(PageKinds, MaxPages), full \in BOOLEAN }

\* The plans of the second address.
CorePlans ==
    { Plan(<< "staking" >>, FALSE), Plan(<< "plain", "swap" >>, FALSE),
      Plan(<< "fetch_fails" >>, FALSE) }

\* Lines 150-155.
NewAddressSummary == AddressSummary(0, 0, 0, 0)

\* A plausible slip: the transactions are counted as swaps.
AddBatchCountingTransactionsAsSwaps(s, b) ==
    [s EXCEPT !["transactions_extracted"] = @ + Len(b.transactions),
              !["swaps_processed"] = @ + Len(b.transactions),
              !["staking_events_processed"] = @ + Len(b.staking_events)]

\* Lines 196-198.
AddBatch(s, b) ==
    [s EXCEPT !["transactions_extracted"] = @ + Len(b.transactions),
              !["swaps_processed"] = @ + Len(b.swaps),
              !["staking_events_processed"] = @ + Len(b.staking_events)]

Step(what, a, k) == [what |-> what, address |-> a, page |-> k]

InitBatches ==
    /\ mode = "batches"
    /\ pc = "address"
    /\ ExtractorIdle
    /\ transactions = <<>> /\ swaps = <<>>
    /\ asset_id = "" /\ raw_amount = 0 /\ normalized = None
    /\ RoundTripIdle /\ StakingIdle /\ UsdIdle /\ HttpIdle /\ PricesIdle
    /\ given_addresses = << PUZZLE_STAKING_ADDRESS, TargetAddress >>
    /\ addresses = given_addresses
    /\ address_index = 1
    /\ summary = NewSummary
    /\ attempted = <<>>
    /\ stg_transactions = EmptyDict /\ ods_swaps = EmptyDict
    /\ ods_staking_events = EmptyDict
    /\ load_batch = None /\ tables_before = None /\ load_outcomes = <<>>
    /\ \E first \in Plans, second \in CorePlans : page_plan = << first, second >>
    /\ page_index = 0
    /\ current_page = None
    /\ address_summary = None
    /\ steps = <<>>

\* What every step of the loop leaves alone.
BatchesFrame ==
    UNCHANGED <<mode, extractor_vars, transform_vars, amount_vars, roundtrip_vars,
                staking_vars, usd_vars, http_vars, price_vars, load_batch, tables_before,
                load_outcomes, given_addresses, addresses, page_plan>>

\* run_pipeline, lines 89-93, and _process_address_with_batches, lines
\* 142-167: the next address is taken up.
BeginAddress ==
    /\ mode = "batches" /\ pc = "address"
    /\ address_index <= Len(addresses)
    /\ address_summary' = NewAddressSummary
    /\ page_index' = 0
    /\ current_page' = None
    /\ pc' = "fetch"
    /\ UNCHANGED <<summary, address_index, attempted, stg_transactions, ods_swaps,
                   ods_staking_events, steps>>
    /\ BatchesFrame

\* run_pipeline, lines 94-113: what the end of the call does to the summary.
EndAddress(outcome) ==
    /\ summary' = AfterAddress(summary, addresses[address_index], outcome)
    /\ attempted' = Append(attempted, [address |-> addresses[address_index],
                                       failed |-> outcome.raised])
    /\ address_index' = address_index + 1
    /\ pc' = "address"

\* Lines 171-178: a page is asked for.  The request raises, or it comes back
\* empty (the loop is left and the summary returned), or it gives a batch.
FetchBatch ==
    /\ mode = "batches" /\ pc = "fetch"
    /\ steps' = Append(steps, Step("fetch", address_index, page_index + 1))
    /\ LET plan == page_plan[address_index]
       IN  IF page_index = Len(plan.pages)
           THEN /\ EndAddress(Returned(address_summary))
                /\ UNCHANGED <<page_index, current_page, address_summary>>
           ELSE IF plan.pages[page_index + 1] = "fetch_fails"
           THEN /\ EndAddress([raised |-> TRUE, value |-> "RuntimeError"])
                /\ UNCHANGED <<page_index, current_page, address_summary>>
           ELSE /\ page_index' = page_index + 1
                /\ current_page' = PageBatch(plan.pages[page_index + 1], address_index,
                                             page_index + 1)
                /\ pc' = "process"
                /\ UNCHANGED <<summary, address_index, attempted, address_summary>>
    /\ UNCHANGED <<stg_transactions, ods_swaps, ods_staking_events>>
    /\ BatchesFrame

\* has_more after page k of the plan.
HasMore(plan, k) == k < Len(plan.pages) \/ plan.last_full

\* Lines 208-213: the end of a turn; the loop goes on or the summary is
\* returned.
EndTurn(s) ==
    IF HasMore(page_plan[address_index], page_index)
    THEN /\ address_summary' = [s EXCEPT !["batches_processed"] = page_index]
         /\ pc' = "fetch"
         /\ UNCHANGED <<summary, address_index, attempted>>
    ELSE /\ address_summary' = [s EXCEPT !["batches_processed"] = page_index]
         /\ EndAddress(Returned([s EXCEPT !["batches_processed"] = page_index]))

\* Lines 180-213 for a batch without relevant transactions.
SkipBatch ==
    /\ mode = "batches" /\ pc = "process"
    /\ current_page.transactions = <<>>
    /\ current_page' = None
    /\ EndTurn(address_summary)
    /\ UNCHANGED <<page_index, stg_transactions, ods_swaps, ods_staking_events, steps>>
    /\ BatchesFrame

\* Lines 188-213: the batch is transformed and loaded; _load_data returns and
\* the batch is added to the summary, or it raises (a save is refused, the
\* aggregation of lines 335-336 fails) and the call ends there.
LoadBatch ==
    /\ mode = "batches" /\ pc = "process"
    /\ current_page.transactions # <<>>
    /\ LET loaded_to == LoadData(Tables(stg_transactions, ods_swaps, ods_staking_events),
                                 current_page)
       IN  /\ stg_transactions' = loaded_to.tables.stg_rows
           /\ ods_swaps' = loaded_to.tables.swap_rows
           /\ ods_staking_events' = loaded_to.tables.staking_rows
           /\ \E aggregation_fails \in BOOLEAN :
                IF loaded_to.raised
                   \/ (aggregation_fails
                       /\ (current_page.swaps # <<>> \/ current_page.staking_events # <<>>))
                THEN /\ steps' = Append(steps, Step("load_raised", address_index, page_index))
                     /\ EndAddress([raised |-> TRUE, value |-> "DatabaseError"])
                     /\ UNCHANGED address_summary
                ELSE /\ steps' = Append(steps, Step("load", address_index, page_index))
                     /\ EndTurn(AddBatch(address_summary, current_page))
    /\ current_page' = None
    /\ UNCHANGED page_index
    /\ BatchesFrame

\* Lines 115-124: every address was taken up; the summary is returned.
ReturnBatchesSummary ==
    /\ mode = "batches" /\ pc = "address"
    /\ address_index > Len(addresses)
    /\ \E elapsed \in 0..1 :
         summary' = Put(Put(summary, "end_time", Datetime(elapsed)), "duration", elapsed)
    /\ pc' = "returned"
    /\ UNCHANGED <<address_index, attempted, stg_transactions, ods_swaps, ods_staking_events,
                   batch_vars>>
    /\ UNCHANGED <<mode, extractor_vars, transform_vars, amount_vars, roundtrip_vars,
                   staking_vars, usd_vars, http_vars, price_vars, load_batch, tables_before,
                   load_outcomes, given_addresses, addresses>>

NextBatches ==
    \/ BeginAddress
    \/ FetchBatch
    \/ SkipBatch
    \/ LoadBatch
    \/ ReturnBatchesSummary

SpecBatches == InitBatches /\ [][NextBatches]_vars

\* The batch of page k of address number a, by the plan.
PlannedBatch(a, k) == PageBatch(page_plan[a].pages[k], a, k)

\* The rows of the batch are in the sink (a swap is never accepted by it).
Persisted(b) ==
    /\ BatchTxIds(b) \subseteq DOMAIN stg_transactions
    /\ BatchEventIds(b) \subseteq DOMAIN ods_staking_events

\* The addresses whose call returned.
Completed == { i \in DOMAIN attempted : ~attempted[i].failed }

\* What the pages of address number a hold: transactions, swaps, events.
PlannedTransactions(a) ==
    SumOver([k \in DOMAIN page_plan[a].pages |-> Len(PlannedBatch(a, k).transactions)],
            DOMAIN page_plan[a].pages)
PlannedSwaps(a) ==
    SumOver([k \in DOMAIN page_plan[a].pages |-> Len(PlannedBatch(a, k).swaps)],
            DOMAIN page_plan[a].pages)
PlannedStakingEvents(a) ==
    SumOver([k \in DOMAIN page_plan[a].pages |-> Len(PlannedBatch(a, k).staking_events)],
            DOMAIN page_plan[a].pages)

\* The step before the request for page k >= 2 of an address is the load of
\* its page k - 1, or the request for it when it held nothing relevant.
LoadedBeforeNextFetch ==
    \A i \in DOMAIN steps :
        (steps[i].what = "fetch" /\ steps[i].page >= 2) =>
            /\ i >= 2
            /\ steps[i - 1]
                 = Step(IF page_plan[steps[i].address].pages[steps[i].page - 1] = "irrelevant"
                        THEN "fetch" ELSE "load",
                        steps[i].address, steps[i].page - 1)

\* C30: each page of an address is transformed and loaded before the next
\* page of that address is asked for; the totals of the summary returned are
\* the sums over the addresses whose call returned; the batches an address
\* loaded before it failed stay in the sink and add nothing to the totals.
C30_BatchesLoadedInTurnTotalsOfCompleted ==
    /\ [](mode = "batches" =>
            /\ LoadedBeforeNextFetch
            /\ (pc = "fetch" =>
                  \A k \in 1..page_index : Persisted(PlannedBatch(address_index, k)))
            /\ \A i \in DOMAIN steps :
                  steps[i].what = "load" =>
                      Persisted(PlannedBatch(steps[i].address, steps[i].page))
            /\ (pc = "returned" =>
                  /\ summary["addresses_processed"] = Cardinality(Completed)
                  /\ summary["transactions_extracted"]
                       = SumOver([a \in Completed |-> PlannedTransactions(a)], Completed)
                  /\ summary["swaps_processed"]
                       = SumOver([a \in Completed |-> PlannedSwaps(a)], Completed)
                  /\ summary["staking_events_processed"]
                       = SumOver([a \in Completed |-> PlannedStakingEvents(a)], Completed)))
    /\ [][mode = "batches" =>
            /\ DOMAIN stg_transactions \subseteq DOMAIN stg_transactions'
            /\ DOMAIN ods_staking_events \subseteq DOMAIN ods_staking_events']_vars

\* The first address loaded a page with a staking event and failed on its
\* second page; the second address completed: the rows of the first page are
\* in the sink and the totals are those of the second address.
C30_Witness ==
    /\ mode = "batches" /\ pc = "returned"
    /\ page_plan[1].pages = << "staking", "swap" >>
    /\ page_plan[2].pages = << "staking" >>
    /\ Completed = { 2 }
    /\ \E i \in DOMAIN steps : steps[i] = Step("load", 1, 1)
    /\ Persisted(PlannedBatch(1, 1))
    /\ summary["transactions_extracted"] = 2
    /\ summary["staking_events_processed"] = 1
    /\ Len(summary["errors"]) = 1
====
